---------------------------- MODULE Spec2Model ----------------------------
(***************************************************************************)
(* A model of the Problema cipher core (src/problema.c, src/problema.h).   *)
(*                                                                         *)
(* A context is a record with the fields of ProblemaContext.  Every C      *)
(* function is an operator of the same name that takes the context and     *)
(* returns the context it leaves (and what it returns or writes).  C       *)
(* arrays are functions on 0..n-1; byte strings passed through the API     *)
(* (UTF-8 input and output) are sequences.                                 *)
(*                                                                         *)
(* The rotor alphabet is scaled: the code has PROBLEMA_ROTOR_SIZE = 2^16,  *)
(* the model has 2^RotorBits.  Everything else keeps the code's sizes: 32  *)
(* key bytes, 8 rotors, 16 feedback bytes, a 256-entry S-box, 15 round     *)
(* keys, 32-bit code points split into four 8-bit bytes, and the real      *)
(* UTF-8 thresholds.  "BMP" in the model means [0, PROBLEMA_ROTOR_SIZE).   *)
(***************************************************************************)
EXTENDS Integers, Sequences, FiniteSets

VARIABLES ctx,    \* the context under test (a ProblemaContext)
          peer,   \* a second, independent context (the receiving side)
          ret,    \* what the last API call on ctx was given and returned
          nops,   \* number of API calls made so far (bounded by MaxOps)
          pc,     \* the experiment under way and its stage
          sc      \* the scenario's inputs and recorded results

vars == <<ctx, peer, ret, nops, pc, sc>>

(***************************** bounds **************************************)
RotorBits == 3
MaxLen == 3
MaxOps == 2
CodecLen == 2

(*********************** constants of problema.h ***************************)
PROBLEMA_KEY_SIZE == 32
PROBLEMA_BLOCK_SIZE == 16
PROBLEMA_NUM_ROTORS == 8
PROBLEMA_ROTOR_SIZE == 2^RotorBits
PROBLEMA_NUM_ROUNDS == 14
PROBLEMA_SBOX_SIZE == 256
MAX_NOTCHES == 8

PROBLEMA_SUCCESS == 0
PROBLEMA_ERROR_NULL_POINTER == -1
PROBLEMA_ERROR_INVALID_KEY == -2
PROBLEMA_ERROR_NOT_INITIALIZED == -3
PROBLEMA_ERROR_BUFFER_TOO_SMALL == -4
PROBLEMA_ERROR_INVALID_UTF8 == -5

(************************* machine arithmetic ******************************)
RECURSIVE XorBits(_, _, _)
XorBits(a, b, n) ==
    IF n = 0 THEN 0
    ELSE (((a % 2) + (b % 2)) % 2) + (2 * XorBits(a \div 2, b \div 2, n - 1))

\* byte_t ^ byte_t, tabulated once for all pairs of bytes
XorTable == [a \in 0..255 |-> [b \in 0..255 |-> XorBits(a, b, 8)]]
Xor8(a, b) == XorTable[a][b]

\* A unicode_t (uint32_t) is held as its four bytes, most significant first: its
\* values reach 2^32 - 1, and TLC's integers stop at 2^31 - 1.
\* Word(n) is the unicode_t of value n, for n in 0 .. 2^31 - 1.
Word(n) == [i \in 0..3 |-> (n \div (2^(8 * (3 - i)))) % 256]
\* the value of w when its leading byte is 0
Low(w) == (w[1] * 65536) + (w[2] * 256) + w[3]
\* w < n and w <= n, for n below 2^24
Below(w, n) == w[0] = 0 /\ Low(w) < n
\* a comparison of the low 24 bits only
AtMostLow(w, n) == Low(w) <= n
AtMost(w, n) == w[0] = 0 /\ Low(w) <= n

\* (x >> 24) & 0xFF, (x >> 16) & 0xFF, (x >> 8) & 0xFF, x & 0xFF
BytesOf(x) == [i \in 0..3 |-> x[i]]

\* ((unicode_t)b[0] << 24) | (b[1] << 16) | (b[2] << 8) | b[3]
WordOf(b) == [i \in 0..3 |-> b[i]]

ZeroBlock == [i \in 0..(PROBLEMA_BLOCK_SIZE - 1) |-> 0]

(******************************* memory ************************************)
\* A ProblemaRotor in zeroed storage.
BlankRotor ==
    [mapping |-> [i \in 0..(PROBLEMA_ROTOR_SIZE - 1) |-> 0],
     position |-> 0,
     notch_positions |-> [n \in 0..(MAX_NOTCHES - 1) |-> 0],
     num_notches |-> 0]

\* A ProblemaContext in zeroed storage, before problema_init has run on it.
BlankContext ==
    [rotors |-> [r \in 0..(PROBLEMA_NUM_ROTORS - 1) |-> BlankRotor],
     inverse_rotors |-> [r \in 0..(PROBLEMA_NUM_ROTORS - 1) |-> BlankRotor],
     plugboard |-> [mapping |-> [i \in 0..(PROBLEMA_ROTOR_SIZE - 1) |-> 0]],
     aes |-> [sbox |-> [i \in 0..(PROBLEMA_SBOX_SIZE - 1) |-> 0],
              inv_sbox |-> [i \in 0..(PROBLEMA_SBOX_SIZE - 1) |-> 0],
              round_keys |-> [round \in 0..PROBLEMA_NUM_ROUNDS |-> ZeroBlock]],
     key |-> [i \in 0..(PROBLEMA_KEY_SIZE - 1) |-> 0],
     feedback |-> ZeroBlock,
     initial_feedback |-> ZeroBlock,
     encrypt_mode |-> FALSE,
     initialized |-> FALSE]

(***************************** key schedule ********************************)
\* init_rotors: the notch loop, n = from .. num_notches - 1
RECURSIVE NotchLoop(_, _, _, _, _)
NotchLoop(np, key, r, n, num) ==
    IF n >= num THEN np
    ELSE NotchLoop([np EXCEPT ![n] = (key[(r + n + 2) % PROBLEMA_KEY_SIZE] * 251)
                                        % PROBLEMA_ROTOR_SIZE],
                   key, r, n + 1, num)

\* init_rotors: the Fisher-Yates loop, i = PROBLEMA_ROTOR_SIZE - 1 down to 1
RECURSIVE RotorShuffle(_, _, _, _)
RotorShuffle(m, key, r, i) ==
    IF i <= 0 THEN m
    ELSE LET j == (key[(r + i) % PROBLEMA_KEY_SIZE] * i) % (i + 1)
         IN  RotorShuffle([m EXCEPT ![i] = m[j], ![j] = m[i]], key, r, i - 1)

\* an inverse loop with its indices exchanged: inverse mapping[i] = mapping[i]
RECURSIVE InverseLoopCopy(_, _, _)
InverseLoopCopy(inv, m, i) ==
    IF i >= PROBLEMA_ROTOR_SIZE THEN inv
    ELSE InverseLoopCopy([inv EXCEPT ![i] = m[i]], m, i + 1)

\* init_rotors: inverse_rotors[r].mapping[rotors[r].mapping[i]] = i, i ascending
RECURSIVE InverseLoop(_, _, _)
InverseLoop(inv, m, i) ==
    IF i >= PROBLEMA_ROTOR_SIZE THEN inv
    ELSE InverseLoop([inv EXCEPT ![m[i]] = i], m, i + 1)

\* a forward rotor set up without rotors[r].position = key[r] % SIZE
InitForwardRotorKeepPosition(old, key, r) ==
    LET num == (key[(r + 1) % PROBLEMA_KEY_SIZE] % 7) + 1
    IN  [mapping |-> RotorShuffle([i \in 0..(PROBLEMA_ROTOR_SIZE - 1) |-> i],
                                  key, r, PROBLEMA_ROTOR_SIZE - 1),
         position |-> old.position,
         notch_positions |-> NotchLoop(old.notch_positions, key, r, 0, num),
         num_notches |-> num]

\* init_rotors, the body of the loop over r: the forward rotor r
InitForwardRotor(old, key, r) ==
    LET num == (key[(r + 1) % PROBLEMA_KEY_SIZE] % 7) + 1
    IN  [mapping |-> RotorShuffle([i \in 0..(PROBLEMA_ROTOR_SIZE - 1) |-> i],
                                  key, r, PROBLEMA_ROTOR_SIZE - 1),
         position |-> key[r % PROBLEMA_KEY_SIZE] % PROBLEMA_ROTOR_SIZE,
         notch_positions |-> NotchLoop(old.notch_positions, key, r, 0, num),
         num_notches |-> num]

\* init_rotors, the body of the loop over r: the inverse rotor r
RECURSIVE CopyNotches(_, _, _, _)
CopyNotches(np, src, n, num) ==
    IF n >= num THEN np
    ELSE CopyNotches([np EXCEPT ![n] = src[n]], src, n + 1, num)

InitInverseRotor(old, fwd) ==
    [mapping |-> InverseLoop(old.mapping, fwd.mapping, 0),
     position |-> fwd.position,
     notch_positions |-> CopyNotches(old.notch_positions, fwd.notch_positions,
                                     0, fwd.num_notches),
     num_notches |-> fwd.num_notches]

init_rotors(c) ==
    LET fwd == [r \in 0..(PROBLEMA_NUM_ROTORS - 1) |->
                   InitForwardRotor(c.rotors[r], c.key, r)]
    IN  [c EXCEPT !.rotors = fwd,
                  !.inverse_rotors =
                      [r \in 0..(PROBLEMA_NUM_ROTORS - 1) |->
                          InitInverseRotor(c.inverse_rotors[r], fwd[r])]]

\* a swap that loses its temporary: mapping[a] = mapping[b] only
PlugSwapNoTemp(m, key, i) ==
    LET a == ((key[i % PROBLEMA_KEY_SIZE] * 251)
              + key[(i + 1) % PROBLEMA_KEY_SIZE]) % PROBLEMA_ROTOR_SIZE
        b == ((key[(i + 2) % PROBLEMA_KEY_SIZE] * 251)
              + key[(i + 3) % PROBLEMA_KEY_SIZE]) % PROBLEMA_ROTOR_SIZE
    IN  [m EXCEPT ![a] = m[b]]

\* init_plugboard: the body of the swap loop for one i
PlugSwap(m, key, i) ==
    LET a == ((key[i % PROBLEMA_KEY_SIZE] * 251)
              + key[(i + 1) % PROBLEMA_KEY_SIZE]) % PROBLEMA_ROTOR_SIZE
        b == ((key[(i + 2) % PROBLEMA_KEY_SIZE] * 251)
              + key[(i + 3) % PROBLEMA_KEY_SIZE]) % PROBLEMA_ROTOR_SIZE
    IN  [m EXCEPT ![a] = m[b], ![b] = m[a]]

\* init_plugboard: the swap loop for i = lo .. hi in ascending order.  The loop
\* is evaluated by halves, and the test that reads the first half's result makes
\* TLC finish the first half before it starts the second, which keeps the
\* evaluation shallow (the test itself is always true).
RECURSIVE PlugSwaps(_, _, _, _)
PlugSwaps(m, key, lo, hi) ==
    IF lo > hi THEN m
    ELSE IF lo = hi THEN PlugSwap(m, key, lo)
    ELSE LET mid == (lo + hi) \div 2
             first == PlugSwaps(m, key, lo, mid)
         IN  IF first[0] >= 0 THEN PlugSwaps(first, key, mid + 1, hi)
             ELSE first

init_plugboard(c) ==
    LET num_swaps == (c.key[0] % 100) + 50
    IN  [c EXCEPT !.plugboard.mapping =
            PlugSwaps([i \in 0..(PROBLEMA_ROTOR_SIZE - 1) |-> i], c.key, 0, num_swaps - 1)]

\* an S-box swap that loses its temporary: sbox[i] = sbox[j] only
SboxSwapNoTemp(s, key, i) ==
    LET j == (key[i % PROBLEMA_KEY_SIZE] * i) % (i + 1)
    IN  [s EXCEPT ![i] = s[j]]

\* init_aes_components: the body of the S-box shuffle for one i
SboxSwap(s, key, i) ==
    LET j == (key[i % PROBLEMA_KEY_SIZE] * i) % (i + 1)
    IN  [s EXCEPT ![i] = s[j], ![j] = s[i]]

\* init_aes_components: the S-box shuffle for i = hi down to lo (by halves,
\* the upper half finished first, as in PlugSwaps)
RECURSIVE SboxShuffle(_, _, _, _)
SboxShuffle(s, key, hi, lo) ==
    IF hi < lo THEN s
    ELSE IF hi = lo THEN SboxSwap(s, key, hi)
    ELSE LET mid == (lo + hi) \div 2
             first == SboxShuffle(s, key, hi, mid + 1)
         IN  IF first[0] >= 0 THEN SboxShuffle(first, key, mid, lo)
             ELSE first

\* init_aes_components: inv_sbox[sbox[i]] = i for i = lo .. hi in ascending
\* order (by halves, the first half finished first, as in PlugSwaps)
RECURSIVE InvSboxLoop(_, _, _, _)
InvSboxLoop(inv, s, lo, hi) ==
    IF lo > hi THEN inv
    ELSE IF lo = hi THEN [inv EXCEPT ![s[lo]] = lo]
    ELSE LET mid == (lo + hi) \div 2
             first == InvSboxLoop(inv, s, lo, mid)
         IN  IF first[0] >= 0 THEN InvSboxLoop(first, s, mid + 1, hi)
             ELSE first

\* a round-key table filled with a stride of one key byte per round
init_aes_components_stride_one(c) ==
    LET s == SboxShuffle([i \in 0..(PROBLEMA_SBOX_SIZE - 1) |-> i], c.key,
                         PROBLEMA_SBOX_SIZE - 1, 1)
    IN  [c EXCEPT !.aes.sbox = s,
                  !.aes.inv_sbox = InvSboxLoop(c.aes.inv_sbox, s, 0, PROBLEMA_SBOX_SIZE - 1),
                  !.aes.round_keys =
                      [round \in 0..PROBLEMA_NUM_ROUNDS |->
                          [i \in 0..(PROBLEMA_BLOCK_SIZE - 1) |->
                              c.key[(i + round) % PROBLEMA_KEY_SIZE]]]]

init_aes_components(c) ==
    LET s == SboxShuffle([i \in 0..(PROBLEMA_SBOX_SIZE - 1) |-> i], c.key,
                         PROBLEMA_SBOX_SIZE - 1, 1)
    IN  [c EXCEPT !.aes.sbox = s,
                  !.aes.inv_sbox = InvSboxLoop(c.aes.inv_sbox, s, 0, PROBLEMA_SBOX_SIZE - 1),
                  !.aes.round_keys =
                      [round \in 0..PROBLEMA_NUM_ROUNDS |->
                          [i \in 0..(PROBLEMA_BLOCK_SIZE - 1) |->
                              c.key[(i + (round * 4)) % PROBLEMA_KEY_SIZE]]]]

\* problema_init with non-null ctx and key: the context it leaves
problema_init(c, key) ==
    LET c1 == init_aes_components(init_plugboard(init_rotors([c EXCEPT !.key = key])))
    IN  [c1 EXCEPT !.feedback = ZeroBlock,
                   !.initial_feedback = ZeroBlock,
                   !.encrypt_mode = TRUE,
                   !.initialized = TRUE]

(****************************** rotor bank *********************************)
\* a notch test on the position the rotor had before it was advanced
at_notch_before(rot) ==
    \E n \in 0..(rot.num_notches - 1) :
        (rot.position + PROBLEMA_ROTOR_SIZE - 1) % PROBLEMA_ROTOR_SIZE
            = rot.notch_positions[n]

\* rotate_rotors: the inner loop over n, "rotor r is at one of its notches"
at_notch(rot) ==
    \E n \in 0..(rot.num_notches - 1) : rot.position = rot.notch_positions[n]

\* an advance that leaves the inverse rotor's position behind
AdvanceForwardOnly(c, r) ==
    [c EXCEPT !.rotors[r].position = (c.rotors[r].position + 1) % PROBLEMA_ROTOR_SIZE]

\* rotate_rotors: rotors[r].position = (position + 1) % SIZE, then the inverse
\* rotor's position is set from it
AdvanceRotor(c, r) ==
    LET p == (c.rotors[r].position + 1) % PROBLEMA_ROTOR_SIZE
    IN  [c EXCEPT !.rotors[r].position = p, !.inverse_rotors[r].position = p]

\* rotate_rotors: the loop r = from .. PROBLEMA_NUM_ROTORS - 2, with its break
RECURSIVE RotateCarry(_, _)
RotateCarry(c, r) ==
    IF r >= PROBLEMA_NUM_ROTORS - 1 THEN c
    ELSE IF at_notch(c.rotors[r]) THEN RotateCarry(AdvanceRotor(c, r + 1), r + 1)
    ELSE c

\* a rotation that leaves every rotor where it stands
rotate_rotors_idle(c) == c

rotate_rotors(c) == RotateCarry(AdvanceRotor(c, 0), 0)

apply_plugboard(c, input) ==
    IF Below(input, PROBLEMA_ROTOR_SIZE) THEN Word(c.plugboard.mapping[Low(input)])
    ELSE input

\* apply_rotors_forward: the loop r = from .. PROBLEMA_NUM_ROTORS - 1, on the
\* value of output (below PROBLEMA_ROTOR_SIZE throughout)
RECURSIVE ForwardLoop(_, _, _)
ForwardLoop(c, output, r) ==
    IF r >= PROBLEMA_NUM_ROTORS THEN output
    ELSE LET pos == c.rotors[r].position
             o1 == c.rotors[r].mapping[(output + pos) % PROBLEMA_ROTOR_SIZE]
         IN  ForwardLoop(c, (o1 + PROBLEMA_ROTOR_SIZE - pos) % PROBLEMA_ROTOR_SIZE, r + 1)

\* a forward cascade without the test input >= PROBLEMA_ROTOR_SIZE
apply_rotors_forward_unchecked(c, input) ==
    Word(ForwardLoop(c, Low(input) % PROBLEMA_ROTOR_SIZE, 0))

apply_rotors_forward(c, input) ==
    IF ~Below(input, PROBLEMA_ROTOR_SIZE) THEN input
    ELSE Word(ForwardLoop(c, Low(input), 0))

\* apply_rotors_backward: the loop r = from down to 0
RECURSIVE BackwardLoop(_, _, _)
BackwardLoop(c, output, r) ==
    IF r < 0 THEN output
    ELSE LET pos == c.inverse_rotors[r].position
             o1 == c.inverse_rotors[r].mapping[(output + pos) % PROBLEMA_ROTOR_SIZE]
         IN  BackwardLoop(c, (o1 + PROBLEMA_ROTOR_SIZE - pos) % PROBLEMA_ROTOR_SIZE, r - 1)

\* a backward cascade that visits the rotors in ascending order
RECURSIVE BackwardLoopAscending(_, _, _)
BackwardLoopAscending(c, output, r) ==
    IF r >= PROBLEMA_NUM_ROTORS THEN output
    ELSE LET pos == c.inverse_rotors[r].position
             o1 == c.inverse_rotors[r].mapping[(output + pos) % PROBLEMA_ROTOR_SIZE]
         IN  BackwardLoopAscending(c, (o1 + PROBLEMA_ROTOR_SIZE - pos) % PROBLEMA_ROTOR_SIZE,
                                   r + 1)

apply_rotors_backward_ascending(c, input) ==
    IF ~Below(input, PROBLEMA_ROTOR_SIZE) THEN input
    ELSE Word(BackwardLoopAscending(c, Low(input), 0))

apply_rotors_backward(c, input) ==
    IF ~Below(input, PROBLEMA_ROTOR_SIZE) THEN input
    ELSE Word(BackwardLoop(c, Low(input), PROBLEMA_NUM_ROTORS - 1))

(*************************** character pipeline ****************************)
\* a feedback update that stores nothing
StoreFeedbackNone(fb, b) == fb

\* feedback[i % PROBLEMA_BLOCK_SIZE] = b[i] for i = 0..3
StoreFeedback(fb, b) ==
    [i \in 0..(PROBLEMA_BLOCK_SIZE - 1) |-> IF i < 4 THEN b[i] ELSE fb[i]]

\* a feedback stage that leaves the bytes as they are
XorFeedbackNone(b, fb) == [i \in 0..3 |-> b[i]]

\* char_bytes[i] ^= feedback[i % PROBLEMA_BLOCK_SIZE] for i = 0..3
XorFeedback(b, fb) == [i \in 0..3 |-> Xor8(b[i], fb[i % PROBLEMA_BLOCK_SIZE])]

\* an encryption that turns the rotors only for code points of their range
problema_encrypt_char_bmp_rotation(c, input) ==
    IF ~c.initialized THEN [ctx |-> c, out |-> input]
    ELSE LET c1 == [c EXCEPT !.encrypt_mode = TRUE]
             o1 == apply_plugboard(c1, input)
             o2 == apply_rotors_forward(c1, o1)
             c2 == IF Below(input, PROBLEMA_ROTOR_SIZE) THEN rotate_rotors(c1) ELSE c1
             o3 == apply_rotors_backward(c2, o2)
             char_bytes == XorFeedback(BytesOf(o3), c2.feedback)
         IN  [ctx |-> [c2 EXCEPT !.feedback = StoreFeedback(c2.feedback, char_bytes)],
              out |-> WordOf(char_bytes)]

\* problema_encrypt_char with a non-null ctx: the context it leaves and its result
problema_encrypt_char(c, input) ==
    IF ~c.initialized THEN [ctx |-> c, out |-> input]
    ELSE LET c1 == [c EXCEPT !.encrypt_mode = TRUE]
             o1 == apply_plugboard(c1, input)
             o2 == apply_rotors_forward(c1, o1)
             c2 == rotate_rotors(c1)
             o3 == apply_rotors_backward(c2, o2)
             c3 == IF c2.feedback = c2.initial_feedback
                   THEN [c2 EXCEPT !.initial_feedback = c2.feedback]
                   ELSE c2
             char_bytes == XorFeedback(BytesOf(o3), c3.feedback)
         IN  [ctx |-> [c3 EXCEPT !.feedback = StoreFeedback(c3.feedback, char_bytes)],
              out |-> WordOf(char_bytes)]

\* a decryption that turns the rotors only for code points of their range
problema_decrypt_char_bmp_rotation(c, input) ==
    IF ~c.initialized THEN [ctx |-> c, out |-> input]
    ELSE LET c1 == [c EXCEPT !.encrypt_mode = FALSE]
             input_bytes == BytesOf(input)
             char_bytes == XorFeedback(BytesOf(input), c1.feedback)
             o1 == WordOf(char_bytes)
             c2 == [c1 EXCEPT !.feedback = StoreFeedback(c1.feedback, input_bytes)]
             o2 == apply_rotors_backward(c2, o1)
             c3 == IF Below(o1, PROBLEMA_ROTOR_SIZE) THEN rotate_rotors(c2) ELSE c2
             o3 == apply_rotors_forward(c3, o2)
         IN  [ctx |-> c3, out |-> apply_plugboard(c3, o3)]

\* problema_decrypt_char with a non-null ctx: the context it leaves and its result
problema_decrypt_char(c, input) ==
    IF ~c.initialized THEN [ctx |-> c, out |-> input]
    ELSE LET c1 == [c EXCEPT !.encrypt_mode = FALSE]
             input_bytes == BytesOf(input)
             char_bytes == XorFeedback(BytesOf(input), c1.feedback)
             o1 == WordOf(char_bytes)
             c2 == [c1 EXCEPT !.feedback = StoreFeedback(c1.feedback, input_bytes)]
             o2 == apply_rotors_backward(c2, o1)
             c3 == rotate_rotors(c2)
             o3 == apply_rotors_forward(c3, o2)
         IN  [ctx |-> c3, out |-> apply_plugboard(c3, o3)]

(****************************** block mode *********************************)
\* a transformation whose mixing step leaves the last byte of each row alone
apply_aes_transformation_keep_last(c, block) ==
    LET sub == [i \in 0..15 |-> c.aes.sbox[block[i]]]
        shf == [k \in 0..15 |-> sub[((k \div 4) * 4) + (((k % 4) + (k \div 4)) % 4)]]
        mix == [k \in 0..15 |->
                   IF k % 4 = 3 THEN shf[k]
                   ELSE Xor8(shf[k], shf[((k \div 4) * 4) + (((k % 4) + 1) % 4)])]
    IN  [i \in 0..15 |-> Xor8(mix[i], c.aes.round_keys[0][i])]

\* apply_aes_transformation: SubBytes, ShiftRows, MixColumns, AddRoundKey
apply_aes_transformation(c, block) ==
    LET sub == [i \in 0..15 |-> c.aes.sbox[block[i]]]
        shf == [k \in 0..15 |-> sub[((k \div 4) * 4) + (((k % 4) + (k \div 4)) % 4)]]
        mix == [k \in 0..15 |->
                   Xor8(shf[k], shf[((k \div 4) * 4) + (((k % 4) + 1) % 4)])]
    IN  [i \in 0..15 |-> Xor8(mix[i], c.aes.round_keys[0][i])]

\* an inverse transformation that stops before InvSubBytes
apply_inverse_aes_transformation_no_sub(c, block) ==
    LET ark == [i \in 0..15 |-> Xor8(block[i], c.aes.round_keys[0][i])]
        mix == [k \in 0..15 |->
                   Xor8(ark[((k \div 4) * 4) + (((k % 4) + 3) % 4)], ark[k])]
    IN  [k \in 0..15 |-> mix[((k \div 4) * 4) + (((k % 4) + 4 - (k \div 4)) % 4)]]

\* apply_inverse_aes_transformation: AddRoundKey, InvMixColumns, InvShiftRows,
\* InvSubBytes
apply_inverse_aes_transformation(c, block) ==
    LET ark == [i \in 0..15 |-> Xor8(block[i], c.aes.round_keys[0][i])]
        mix == [k \in 0..15 |->
                   Xor8(ark[((k \div 4) * 4) + (((k % 4) + 3) % 4)], ark[k])]
        \* block[i*4 + (j+i)%4] = temp[i*4 + j]
        shf == [k \in 0..15 |->
                   mix[((k \div 4) * 4) + (((k % 4) + 4 - (k \div 4)) % 4)]]
    IN  [i \in 0..15 |-> c.aes.inv_sbox[shf[i]]]

update_feedback(c, block) ==
    [c EXCEPT !.feedback = [i \in 0..(PROBLEMA_BLOCK_SIZE - 1) |-> block[i]]]

\* problema_encrypt_block with non-null arguments; written = whether the output
\* buffer was written
problema_encrypt_block(c, input) ==
    IF ~c.initialized THEN [ctx |-> c, written |-> FALSE, out |-> ZeroBlock]
    ELSE LET x == [i \in 0..(PROBLEMA_BLOCK_SIZE - 1) |-> Xor8(input[i], c.feedback[i])]
             output == apply_aes_transformation(c, x)
         IN  [ctx |-> update_feedback(c, output), written |-> TRUE, out |-> output]

\* a block decryption that takes the next feedback from what it returns
problema_decrypt_block_feedback_output(c, input) ==
    IF ~c.initialized THEN [ctx |-> c, written |-> FALSE, out |-> ZeroBlock]
    ELSE LET t == apply_inverse_aes_transformation(c, input)
             output == [i \in 0..(PROBLEMA_BLOCK_SIZE - 1) |-> Xor8(t[i], c.feedback[i])]
         IN  [ctx |-> update_feedback(c, output), written |-> TRUE, out |-> output]

\* problema_decrypt_block with non-null arguments
problema_decrypt_block(c, input) ==
    IF ~c.initialized THEN [ctx |-> c, written |-> FALSE, out |-> ZeroBlock]
    ELSE LET t == apply_inverse_aes_transformation(c, input)
             output == [i \in 0..(PROBLEMA_BLOCK_SIZE - 1) |-> Xor8(t[i], c.feedback[i])]
         IN  [ctx |-> update_feedback(c, input), written |-> TRUE, out |-> output]

(******************************* UTF-8 codec *******************************)
\* the top n bits of a byte, (b & mask) >> (8 - n); the low n bits, b & (2^n - 1)
TopBits(b, n) == b \div (2^(8 - n))
\* a mask one bit short
LowBitsNarrow(b, n) == b % (2^(n - 1))
LowBits(b, n) == b % (2^n)
\* a test of the top bit only
IsContinuationLax(b) == TopBits(b, 1) = 1
\* (b & 0xC0) == 0x80
IsContinuation(b) == TopBits(b, 2) = 2

\* utf8_to_unicode, the while loop from byte index i (0-based) with the code
\* points written so far; unicode_len is <<>> while *unicode_len is unwritten
RECURSIVE DecodeLoop(_, _, _, _)
DecodeLoop(utf8, i, unicode, unicode_size) ==
    LET utf8_len == Len(utf8)
        j == Len(unicode)
        at(k) == utf8[k + 1]
        bad == [rc |-> PROBLEMA_ERROR_INVALID_UTF8, unicode |-> unicode,
                unicode_len |-> <<>>]
    IN  IF ~(i < utf8_len /\ j < unicode_size)
        THEN [rc |-> IF i < utf8_len /\ j >= unicode_size
                     THEN PROBLEMA_ERROR_BUFFER_TOO_SMALL ELSE PROBLEMA_SUCCESS,
              unicode |-> unicode, unicode_len |-> <<j>>]
        ELSE IF TopBits(at(i), 1) = 0
        THEN DecodeLoop(utf8, i + 1, Append(unicode, Word(at(i))), unicode_size)
        ELSE IF TopBits(at(i), 3) = 6
        THEN IF i + 1 >= utf8_len \/ ~IsContinuation(at(i + 1)) THEN bad
             ELSE DecodeLoop(utf8, i + 2,
                     Append(unicode, Word((LowBits(at(i), 5) * 64) + LowBits(at(i + 1), 6))),
                     unicode_size)
        ELSE IF TopBits(at(i), 4) = 14
        THEN IF i + 2 >= utf8_len \/ ~IsContinuation(at(i + 1))
                \/ ~IsContinuation(at(i + 2)) THEN bad
             ELSE DecodeLoop(utf8, i + 3,
                     Append(unicode, Word((LowBits(at(i), 4) * 4096)
                                          + (LowBits(at(i + 1), 6) * 64)
                                          + LowBits(at(i + 2), 6))),
                     unicode_size)
        ELSE IF TopBits(at(i), 5) = 30
        THEN IF i + 3 >= utf8_len \/ ~IsContinuation(at(i + 1))
                \/ ~IsContinuation(at(i + 2)) \/ ~IsContinuation(at(i + 3)) THEN bad
             ELSE DecodeLoop(utf8, i + 4,
                     Append(unicode, Word((LowBits(at(i), 3) * 262144)
                                          + (LowBits(at(i + 1), 6) * 4096)
                                          + (LowBits(at(i + 2), 6) * 64)
                                          + LowBits(at(i + 3), 6))),
                     unicode_size)
        ELSE bad

\* a decoder that reports a full code-point buffer even when the input is used up
utf8_to_unicode_full_is_error(utf8, unicode_size) ==
    LET d == DecodeLoop(utf8, 0, <<>>, unicode_size)
    IN  IF d.rc = PROBLEMA_SUCCESS /\ Len(d.unicode) >= unicode_size
        THEN [d EXCEPT !.rc = PROBLEMA_ERROR_BUFFER_TOO_SMALL]
        ELSE d

\* utf8_to_unicode with non-null arguments
utf8_to_unicode(utf8, unicode_size) == DecodeLoop(utf8, 0, <<>>, unicode_size)

\* unicode_to_utf8, the for loop from code point index i (1-based here) with the
\* bytes written so far; utf8_len is <<>> while *utf8_len is unwritten
RECURSIVE EncodeLoop(_, _, _, _)
EncodeLoop(unicode, i, utf8, utf8_size) ==
    LET j == Len(utf8)
        word == unicode[i]
        code == Low(word)
        small == [rc |-> PROBLEMA_ERROR_BUFFER_TOO_SMALL, utf8 |-> utf8, utf8_len |-> <<>>]
    IN  IF i > Len(unicode)
        THEN [rc |-> PROBLEMA_SUCCESS, utf8 |-> utf8, utf8_len |-> <<j>>]
        ELSE IF AtMost(word, 127)
        THEN IF j + 1 > utf8_size THEN small
             ELSE EncodeLoop(unicode, i + 1, Append(utf8, code), utf8_size)
        ELSE IF AtMost(word, 2047)
        THEN IF j + 2 > utf8_size THEN small
             ELSE EncodeLoop(unicode, i + 1,
                     utf8 \o <<192 + (code \div 64), 128 + (code % 64)>>, utf8_size)
        ELSE IF AtMost(word, 65535)
        THEN IF j + 3 > utf8_size THEN small
             ELSE EncodeLoop(unicode, i + 1,
                     utf8 \o <<224 + (code \div 4096), 128 + ((code \div 64) % 64),
                               128 + (code % 64)>>, utf8_size)
        ELSE IF AtMost(word, 1114111)
        THEN IF j + 4 > utf8_size THEN small
             ELSE EncodeLoop(unicode, i + 1,
                     utf8 \o <<240 + (code \div 262144), 128 + ((code \div 4096) % 64),
                               128 + ((code \div 64) % 64), 128 + (code % 64)>>,
                     utf8_size)
        ELSE [rc |-> PROBLEMA_ERROR_INVALID_UTF8, utf8 |-> utf8, utf8_len |-> <<>>]

\* unicode_to_utf8 with non-null arguments
unicode_to_utf8(unicode, utf8_size) == EncodeLoop(unicode, 1, <<>>, utf8_size)

(******************************* string mode *******************************)
\* problema_encrypt: the loop over unicode_buffer, from index i (1-based here)
RECURSIVE EncryptLoop(_, _, _)
EncryptLoop(c, buf, i) ==
    IF i > Len(buf) THEN [ctx |-> c, buf |-> buf]
    ELSE LET e == problema_encrypt_char(c, buf[i])
         IN  EncryptLoop(e.ctx, [buf EXCEPT ![i] = e.out], i + 1)

\* problema_decrypt: the loop over unicode_buffer
RECURSIVE DecryptLoop(_, _, _)
DecryptLoop(c, buf, i) ==
    IF i > Len(buf) THEN [ctx |-> c, buf |-> buf]
    ELSE LET e == problema_decrypt_char(c, buf[i])
         IN  DecryptLoop(e.ctx, [buf EXCEPT ![i] = e.out], i + 1)

\* feedback[0..3] as the XOR loop of a single-character call reads it
FeedbackWord(c) == [i \in 0..3 |-> c.feedback[i % PROBLEMA_BLOCK_SIZE]]

\* the values of feedback[0..3] that the loop of problema_encrypt XORs into the
\* code points from index i on, in order; problema_encrypt_char does not write
\* the feedback before its XOR
RECURSIVE EncryptFeedbacks(_, _, _)
EncryptFeedbacks(c, buf, i) ==
    IF i > Len(buf) THEN <<>>
    ELSE <<FeedbackWord(c)>> \o EncryptFeedbacks(problema_encrypt_char(c, buf[i]).ctx, buf, i + 1)

\* the same for the loop of problema_decrypt; problema_decrypt_char does its XOR
\* first
RECURSIVE DecryptFeedbacks(_, _, _)
DecryptFeedbacks(c, buf, i) ==
    IF i > Len(buf) THEN <<>>
    ELSE <<FeedbackWord(c)>> \o DecryptFeedbacks(problema_decrypt_char(c, buf[i]).ctx, buf, i + 1)

\* an entry that keeps the feedback of the previous call
KeepFeedback(c) == c

\* memset(ctx->feedback, 0, PROBLEMA_BLOCK_SIZE) at the entry of problema_encrypt
\* and of problema_decrypt
ClearFeedback(c) == [c EXCEPT !.feedback = ZeroBlock]

\* an encryption that puts the context back as it was at the loop's start when
\* the output cannot be encoded
problema_encrypt_rollback(c, input, output_size) ==
    IF ~c.initialized
    THEN [ctx |-> c, rc |-> PROBLEMA_ERROR_NOT_INITIALIZED, out |-> <<>>, out_len |-> <<>>]
    ELSE LET c1 == [ClearFeedback([c EXCEPT !.encrypt_mode = TRUE])
                       EXCEPT !.initial_feedback = ZeroBlock]
             d == utf8_to_unicode(input, Len(input))
         IN  IF d.rc # PROBLEMA_SUCCESS
             THEN [ctx |-> c1, rc |-> d.rc, out |-> <<>>, out_len |-> <<>>]
             ELSE LET e == EncryptLoop(c1, d.unicode, 1)
                      u == unicode_to_utf8(e.buf, output_size)
                  IN  [ctx |-> IF u.rc = PROBLEMA_SUCCESS THEN e.ctx ELSE c1,
                       rc |-> u.rc, out |-> u.utf8, out_len |-> u.utf8_len]

\* problema_encrypt with non-null arguments (and malloc succeeding): the context
\* it leaves, its return code, the bytes written to output, and *output_len
\* (<<>> while unwritten)
problema_encrypt(c, input, output_size) ==
    IF ~c.initialized
    THEN [ctx |-> c, rc |-> PROBLEMA_ERROR_NOT_INITIALIZED, out |-> <<>>, out_len |-> <<>>]
    ELSE LET c1 == [ClearFeedback([c EXCEPT !.encrypt_mode = TRUE])
                       EXCEPT !.initial_feedback = ZeroBlock]
             d == utf8_to_unicode(input, Len(input))
         IN  IF d.rc # PROBLEMA_SUCCESS
             THEN [ctx |-> c1, rc |-> d.rc, out |-> <<>>, out_len |-> <<>>]
             ELSE LET e == EncryptLoop(c1, d.unicode, 1)
                      u == unicode_to_utf8(e.buf, output_size)
                  IN  [ctx |-> e.ctx, rc |-> u.rc, out |-> u.utf8, out_len |-> u.utf8_len]

\* a decryption whose entry zeroes feedback[0..3] only
problema_decrypt_clear_four(c, input, output_size) ==
    IF ~c.initialized
    THEN [ctx |-> c, rc |-> PROBLEMA_ERROR_NOT_INITIALIZED, out |-> <<>>, out_len |-> <<>>]
    ELSE LET c1 == [c EXCEPT !.encrypt_mode = FALSE,
                             !.feedback = StoreFeedback(c.feedback, Word(0))]
             d == utf8_to_unicode(input, Len(input))
         IN  IF d.rc # PROBLEMA_SUCCESS
             THEN [ctx |-> c1, rc |-> d.rc, out |-> <<>>, out_len |-> <<>>]
             ELSE LET e == DecryptLoop(c1, d.unicode, 1)
                      u == unicode_to_utf8(e.buf, output_size)
                  IN  [ctx |-> e.ctx, rc |-> u.rc, out |-> u.utf8, out_len |-> u.utf8_len]

\* problema_decrypt with non-null arguments (and malloc succeeding)
problema_decrypt(c, input, output_size) ==
    IF ~c.initialized
    THEN [ctx |-> c, rc |-> PROBLEMA_ERROR_NOT_INITIALIZED, out |-> <<>>, out_len |-> <<>>]
    ELSE LET c1 == ClearFeedback([c EXCEPT !.encrypt_mode = FALSE])
             d == utf8_to_unicode(input, Len(input))
         IN  IF d.rc # PROBLEMA_SUCCESS
             THEN [ctx |-> c1, rc |-> d.rc, out |-> <<>>, out_len |-> <<>>]
             ELSE LET e == DecryptLoop(c1, d.unicode, 1)
                      u == unicode_to_utf8(e.buf, output_size)
                  IN  [ctx |-> e.ctx, rc |-> u.rc, out |-> u.utf8, out_len |-> u.utf8_len]

\* a cleanup that clears the flag and the feedback and leaves the key
problema_cleanup_keep_key(c) ==
    [c EXCEPT !.feedback = ZeroBlock, !.initialized = FALSE]

\* problema_cleanup with a non-null ctx
problema_cleanup(c) ==
    [c EXCEPT !.key = [i \in 0..(PROBLEMA_KEY_SIZE - 1) |-> 0],
              !.feedback = ZeroBlock,
              !.initialized = FALSE]

(************************** calls with null pointers ***********************)
\* The operators above take the arguments as objects.  A call may pass any of
\* its pointer arguments as NULL: nulls is the set of the arguments so passed,
\* and c is the caller's context object, which a call given ctx = NULL cannot
\* reach.
InitPointers == {"ctx", "key"}
StringPointers == {"ctx", "input", "output", "output_len"}
CharPointers == {"ctx"}
BlockPointers == {"ctx", "input", "output"}

\* problema_init: if (ctx == NULL || key == NULL) return NULL_POINTER
problema_init_call(c, nulls, key) ==
    IF nulls # {} THEN [ctx |-> c, rc |-> PROBLEMA_ERROR_NULL_POINTER]
    ELSE [ctx |-> problema_init(c, key), rc |-> PROBLEMA_SUCCESS]

\* a single-character call that answers a null ctx with 0
problema_encrypt_char_call_zero(c, nulls, input) ==
    IF nulls # {} THEN [ctx |-> c, out |-> Word(0)]
    ELSE problema_encrypt_char(c, input)

\* problema_encrypt_char: if (ctx == NULL || ...) return input
problema_encrypt_char_call(c, nulls, input) ==
    IF nulls # {} THEN [ctx |-> c, out |-> input]
    ELSE problema_encrypt_char(c, input)

\* problema_decrypt_char: if (ctx == NULL || ...) return input
problema_decrypt_char_call(c, nulls, input) ==
    IF nulls # {} THEN [ctx |-> c, out |-> input]
    ELSE problema_decrypt_char(c, input)

\* problema_encrypt_block: if (ctx == NULL || input == NULL || output == NULL
\* || ...) return
problema_encrypt_block_call(c, nulls, input) ==
    IF nulls # {} THEN [ctx |-> c, written |-> FALSE, out |-> ZeroBlock]
    ELSE problema_encrypt_block(c, input)

\* problema_decrypt_block: the same test
problema_decrypt_block_call(c, nulls, input) ==
    IF nulls # {} THEN [ctx |-> c, written |-> FALSE, out |-> ZeroBlock]
    ELSE problema_decrypt_block(c, input)

\* an entry that tests the initialized flag before the pointers
problema_encrypt_call_flag_first(c, nulls, input, output_size) ==
    IF ~c.initialized
    THEN [ctx |-> c, rc |-> PROBLEMA_ERROR_NOT_INITIALIZED, out |-> <<>>, out_len |-> <<>>]
    ELSE IF nulls # {}
    THEN [ctx |-> c, rc |-> PROBLEMA_ERROR_NULL_POINTER, out |-> <<>>, out_len |-> <<>>]
    ELSE problema_encrypt(c, input, output_size)

\* problema_encrypt: if (ctx == NULL || input == NULL || output == NULL ||
\* output_len == NULL) return NULL_POINTER, before anything else
problema_encrypt_call(c, nulls, input, output_size) ==
    IF nulls # {}
    THEN [ctx |-> c, rc |-> PROBLEMA_ERROR_NULL_POINTER, out |-> <<>>, out_len |-> <<>>]
    ELSE problema_encrypt(c, input, output_size)

\* problema_decrypt: the same test
problema_decrypt_call(c, nulls, input, output_size) ==
    IF nulls # {}
    THEN [ctx |-> c, rc |-> PROBLEMA_ERROR_NULL_POINTER, out |-> <<>>, out_len |-> <<>>]
    ELSE problema_decrypt(c, input, output_size)

(***************************** sampled inputs ******************************)
\* a 32-byte key from its leading bytes, zero padded
KeyFromBytes(b) ==
    [i \in 0..(PROBLEMA_KEY_SIZE - 1) |-> IF i < Len(b) THEN b[i + 1] ELSE 0]

ZeroKey == KeyFromBytes(<<>>)
\* "secret" and "problema", zero padded
SecretKey == KeyFromBytes(<<115, 101, 99, 114, 101, 116>>)
ProblemaKey == KeyFromBytes(<<112, 114, 111, 98, 108, 101, 109, 97>>)
\* a key whose rotors 0..6 all stand one step before a notch when
\* PROBLEMA_ROTOR_SIZE is 8, so that the first rotation carries through rotor 7
CascadeKey == KeyFromBytes(<<0, 0, 3, 3, 4, 4, 7, 7>>)
Keys == {ZeroKey, SecretKey, ProblemaKey, CascadeKey}
\* a key with no zero byte, so that its second half is told from padding
FullKey == [i \in 0..(PROBLEMA_KEY_SIZE - 1) |-> i + 1]
ArgKeys == Keys \cup {FullKey}

\* the code points the rotors and the plugboard act on
Bmp == 0..(PROBLEMA_ROTOR_SIZE - 1)
\* U+1F600, a code point beyond them
Emoji == Word(128512)

\* all code-point sequences over alphabet A of length 0..n
CodeSeqs(A, n) == UNION {[1..k -> A] : k \in 0..n}
\* the UTF-8 form of a code-point sequence
Utf8Of(cs) == unicode_to_utf8([i \in 1..Len(cs) |-> Word(cs[i])], 4 * Len(cs)).utf8
\* the capacity of the callers' output buffers
OutputSize == 4 * MaxLen

\* inputs of the single-context machine
CharInputs == {Word(0), Word(1), Word(PROBLEMA_ROTOR_SIZE - 1),
               Word(PROBLEMA_ROTOR_SIZE), Emoji}
\* U+100000, in the last plane
Plane16 == Word(1048576)
\* three code points, the middle one beyond the rotors' range
ThreePoints == Utf8Of(<<PROBLEMA_ROTOR_SIZE - 1, Low(Emoji), PROBLEMA_ROTOR_SIZE - 1>>)
Texts == {Utf8Of(cs) : cs \in CodeSeqs({PROBLEMA_ROTOR_SIZE - 1, Low(Emoji)}, 2)}
             \cup {Utf8Of(<<Low(Plane16), Low(Emoji)>>), <<128>>, ThreePoints}
\* the data of the calls whose pointer arguments are sampled
ArgCharInputs == {Word(PROBLEMA_ROTOR_SIZE - 1), Emoji}
ArgTexts == {Utf8Of(<<PROBLEMA_ROTOR_SIZE - 1, Low(Emoji)>>),
             Utf8Of(<<Low(Plane16), Low(Emoji)>>)}
\* an output buffer with room for one code point, too short for the results of
\* those
ShortOutput == OutputSize \div MaxLen
BlockSeq(b) == [i \in 1..PROBLEMA_BLOCK_SIZE |-> b[i - 1]]
BlockOf(q) == [i \in 0..(PROBLEMA_BLOCK_SIZE - 1) |-> q[i + 1]]
Blocks == {BlockSeq(ZeroBlock), [i \in 1..PROBLEMA_BLOCK_SIZE |-> (i - 1) * 17]}

\* inputs of the two-context scenarios: every string of up to MaxLen code
\* points over four code points of the rotors' range
PlainAlphabet == {0, 1, PROBLEMA_ROTOR_SIZE \div 2, PROBLEMA_ROTOR_SIZE - 1}
Plaintexts == {Utf8Of(cs) : cs \in CodeSeqs(PlainAlphabet, MaxLen)}
Dummies == {Utf8Of([i \in 1..k |-> a]) : k \in 0..MaxLen, a \in {0, PROBLEMA_ROTOR_SIZE - 1}}
\* the number of code points of a valid UTF-8 string
CodePointCount(utf8) == Len(utf8_to_unicode(utf8, Len(utf8)).unicode)

(**************************** the state machine ****************************)
\* ret records the last call on ctx: the operation, its arguments and results
\* (size is the output_size of a string call), in null whether a pointer
\* argument was NULL, and in prev the operation called before it
NoCall == [op |-> "none", prev |-> "none", null |-> FALSE, rc |-> 0,
           cin |-> Word(0), cout |-> Word(0),
           bin |-> <<>>, size |-> 0, bout |-> <<>>, out_len |-> <<>>]

\* sc.key is the key last given to problema_init on ctx; the other fields record
\* a two-context scenario
NoScenario == [key |-> ZeroKey, plain |-> <<>>, c1 |-> <<>>, rc1 |-> 0,
               c2 |-> <<>>, rc2 |-> 0, p |-> <<>>, rcp |-> 0,
               x |-> Word(0), y |-> Word(0), z |-> Word(0),
               key2 |-> ZeroKey, c3 |-> <<>>, rc3 |-> 0, cq |-> <<>>, rcq |-> 0,
               blk |-> <<>>, cb |-> <<>>, pb |-> <<>>,
               fe |-> <<>>, fd |-> <<>>, n |-> 0]

\* the state after construction: problema_init(&ctx, key) on fresh storage
Init ==
    \E k \in Keys :
        /\ ctx = problema_init(BlankContext, k)
        /\ peer = BlankContext
        /\ ret = [NoCall EXCEPT !.op = "init"]
        /\ nops = 0
        /\ pc = "free"
        /\ sc = [NoScenario EXCEPT !.key = k]

\* The calls are sampled in two ways.  With pc = "free" every pointer argument
\* is non-null and the data come from the larger sets; with pc = "args" the
\* pointer arguments range over every combination of null and non-null, and
\* the data over small sets.
InitArgs ==
    \E k \in ArgKeys :
        /\ ctx = problema_init(BlankContext, k)
        /\ peer = BlankContext
        /\ ret = [NoCall EXCEPT !.op = "init"]
        /\ nops = 0
        /\ pc = "args"
        /\ sc = [NoScenario EXCEPT !.key = k]

\* the sets of null pointer arguments of a call, among its pointers P
NullSets(P) == IF pc = "args" THEN SUBSET P ELSE {{}}

\* the capacities of the output buffer given to a string call
OutputSizes == IF pc = "args" THEN {ShortOutput, OutputSize} ELSE {OutputSize}

\* Every call is bound to a name once and made only when Step allows it, so
\* that TLC evaluates it once per step.
Step ==
    /\ nops < MaxOps
    /\ pc \in {"free", "args"}
    /\ nops' = nops + 1
    /\ UNCHANGED <<peer, pc>>

Reinit ==
    /\ Step
    /\ \E nulls \in NullSets(InitPointers) :
           \E k \in (IF pc = "args" THEN {sc.key} ELSE Keys) :
               \E r \in {problema_init_call(ctx, nulls, k)} :
                   /\ ctx' = r.ctx
                   /\ ret' = [NoCall EXCEPT !.prev = ret.op, !.op = "init",
                                 !.null = (nulls # {}), !.rc = r.rc]
                   /\ sc' = IF r.rc = PROBLEMA_SUCCESS THEN [sc EXCEPT !.key = k] ELSE sc

Cleanup ==
    /\ Step
    /\ ctx' = problema_cleanup(ctx)
    /\ ret' = [NoCall EXCEPT !.prev = ret.op, !.op = "cleanup"]
    /\ UNCHANGED sc

EncryptChar ==
    /\ Step
    /\ \E nulls \in NullSets(CharPointers) :
           \E x \in (IF pc = "args" THEN ArgCharInputs ELSE CharInputs) :
               \E r \in {problema_encrypt_char_call(ctx, nulls, x)} :
                   /\ ctx' = r.ctx
                   /\ ret' = [NoCall EXCEPT !.prev = ret.op, !.op = "encrypt_char",
                                 !.null = (nulls # {}), !.cin = x, !.cout = r.out]
                   /\ UNCHANGED sc

DecryptChar ==
    /\ Step
    /\ \E nulls \in NullSets(CharPointers) :
           \E x \in (IF pc = "args" THEN ArgCharInputs ELSE CharInputs) \cup {ret.cout} :
               \E r \in {problema_decrypt_char_call(ctx, nulls, x)} :
                   /\ ctx' = r.ctx
                   /\ ret' = [NoCall EXCEPT !.prev = ret.op, !.op = "decrypt_char",
                                 !.null = (nulls # {}), !.cin = x, !.cout = r.out]
                   /\ UNCHANGED sc

EncryptBlock ==
    /\ Step
    /\ \E nulls \in NullSets(BlockPointers) :
           \E b \in Blocks :
               \E r \in {problema_encrypt_block_call(ctx, nulls, BlockOf(b))} :
                   /\ ctx' = r.ctx
                   /\ ret' = [NoCall EXCEPT !.prev = ret.op, !.op = "encrypt_block",
                                 !.null = (nulls # {}), !.bin = b,
                                 !.bout = IF r.written THEN BlockSeq(r.out) ELSE <<>>]
                   /\ UNCHANGED sc

DecryptBlock ==
    /\ Step
    /\ \E nulls \in NullSets(BlockPointers) :
           \E b \in Blocks \cup (IF ret.op = "encrypt_block" /\ ret.bout # <<>>
                                 THEN {ret.bout} ELSE {}) :
               \E r \in {problema_decrypt_block_call(ctx, nulls, BlockOf(b))} :
                   /\ ctx' = r.ctx
                   /\ ret' = [NoCall EXCEPT !.prev = ret.op, !.op = "decrypt_block",
                                 !.null = (nulls # {}), !.bin = b,
                                 !.bout = IF r.written THEN BlockSeq(r.out) ELSE <<>>]
                   /\ UNCHANGED sc

Encrypt ==
    /\ Step
    /\ \E nulls \in NullSets(StringPointers) :
           \E s \in (IF pc = "args" THEN ArgTexts ELSE Texts), size \in OutputSizes :
               \E r \in {problema_encrypt_call(ctx, nulls, s, size)} :
                   /\ ctx' = r.ctx
                   /\ ret' = [NoCall EXCEPT !.prev = ret.op, !.op = "encrypt",
                                 !.null = (nulls # {}), !.rc = r.rc, !.bin = s,
                                 !.size = size, !.bout = r.out, !.out_len = r.out_len]
                   /\ UNCHANGED sc

Decrypt ==
    /\ Step
    /\ \E nulls \in NullSets(StringPointers) :
           \E s \in (IF pc = "args" THEN ArgTexts ELSE Texts)
                         \cup (IF ret.op = "encrypt" THEN {ret.bout} ELSE {}) :
               \E size \in OutputSizes :
                   \E r \in {problema_decrypt_call(ctx, nulls, s, size)} :
                       /\ ctx' = r.ctx
                       /\ ret' = [NoCall EXCEPT !.prev = ret.op, !.op = "decrypt",
                                     !.null = (nulls # {}), !.rc = r.rc, !.bin = s,
                                     !.size = size, !.bout = r.out,
                                     !.out_len = r.out_len]
                       /\ UNCHANGED sc

Next ==
    \/ Reinit
    \/ Cleanup
    \/ EncryptChar
    \/ DecryptChar
    \/ EncryptBlock
    \/ DecryptBlock
    \/ Encrypt
    \/ Decrypt

Spec == Init /\ [][Next]_vars

SpecArgs == InitArgs /\ [][Next]_vars

(************************ the two-context scenarios ************************)
\* ctx and peer are two contexts initialized from the same key; sc records what
\* the calls of a scenario were given and what they returned.
InitRT ==
    \E k \in Keys :
        /\ ctx = problema_init(BlankContext, k)
        /\ peer = problema_init(BlankContext, k)
        /\ ret = [NoCall EXCEPT !.op = "init"]
        /\ nops = 0
        /\ pc = "fresh"
        /\ sc = [NoScenario EXCEPT !.key = k]

\* the feedback values a problema_encrypt or problema_decrypt call on c XORs
\* into the code points of input, one after the other
FeedbacksOfEncrypt(c, input) ==
    EncryptFeedbacks(ClearFeedback(c), utf8_to_unicode(input, Len(input)).unicode, 1)
FeedbacksOfDecrypt(c, input) ==
    DecryptFeedbacks(ClearFeedback(c), utf8_to_unicode(input, Len(input)).unicode, 1)

\* c1 = problema_encrypt(ctx, s)
RT_Encrypt ==
    \E s \in Plaintexts :
        LET r == problema_encrypt(ctx, s, OutputSize)
        IN  /\ pc = "fresh"
            /\ pc' = "enc1"
            /\ ctx' = r.ctx
            /\ sc' = [sc EXCEPT !.plain = s, !.c1 = r.out, !.rc1 = r.rc,
                                !.fe = FeedbacksOfEncrypt(ctx, s)]
            /\ UNCHANGED <<peer, ret, nops>>

\* p = problema_decrypt(peer, c1), peer fresh
RT_DecryptFresh ==
    LET r == problema_decrypt(peer, sc.c1, OutputSize)
    IN  /\ pc = "enc1"
        /\ pc' = "dec1"
        /\ peer' = r.ctx
        /\ sc' = [sc EXCEPT !.p = r.out, !.rcp = r.rc,
                            !.fd = FeedbacksOfDecrypt(peer, sc.c1)]
        /\ UNCHANGED <<ctx, ret, nops>>

\* the same two calls on a string with code points beyond the rotors' range
RT_EncryptText ==
    /\ pc = "fresh"
    /\ \E s \in Texts :
           \E r \in {problema_encrypt(ctx, s, OutputSize)} :
               /\ pc' = "enct"
               /\ ctx' = r.ctx
               /\ sc' = [sc EXCEPT !.plain = s, !.c1 = r.out, !.rc1 = r.rc,
                                   !.fe = FeedbacksOfEncrypt(ctx, s)]
               /\ UNCHANGED <<peer, ret, nops>>

RT_DecryptText ==
    /\ pc = "enct"
    /\ \E r \in {problema_decrypt(peer, sc.c1, OutputSize)} :
           /\ pc' = "dect"
           /\ peer' = r.ctx
           /\ sc' = [sc EXCEPT !.p = r.out, !.rcp = r.rc,
                               !.fd = FeedbacksOfDecrypt(peer, sc.c1)]
           /\ UNCHANGED <<ctx, ret, nops>>

\* c2 = problema_encrypt(ctx, s) again on the same context
RT_EncryptAgain ==
    LET r == problema_encrypt(ctx, sc.plain, OutputSize)
    IN  /\ pc = "enc1"
        /\ pc' = "enc2"
        /\ ctx' = r.ctx
        /\ sc' = [sc EXCEPT !.c2 = r.out, !.rc2 = r.rc,
                            !.fe = FeedbacksOfEncrypt(ctx, sc.plain)]
        /\ UNCHANGED <<peer, ret, nops>>

\* the fresh peer encrypts a dummy string with as many code points as s
RT_CatchUp ==
    \E d \in Dummies :
        /\ pc = "enc2"
        /\ CodePointCount(d) = CodePointCount(sc.plain)
        /\ pc' = "caught"
        /\ peer' = problema_encrypt(peer, d, OutputSize).ctx
        /\ UNCHANGED <<ctx, ret, nops, sc>>

\* p = problema_decrypt(peer, c2), peer caught up
RT_DecryptCaughtUp ==
    LET r == problema_decrypt(peer, sc.c2, OutputSize)
    IN  /\ pc = "caught"
        /\ pc' = "dec2"
        /\ peer' = r.ctx
        /\ sc' = [sc EXCEPT !.p = r.out, !.rcp = r.rc,
                            !.fd = FeedbacksOfDecrypt(peer, sc.c2)]
        /\ UNCHANGED <<ctx, ret, nops>>

\* y = problema_encrypt_char(ctx, x)
RT_EncryptChar ==
    \E x \in Bmp :
        LET r == problema_encrypt_char(ctx, Word(x))
        IN  /\ pc = "fresh"
            /\ pc' = "encc"
            /\ ctx' = r.ctx
            /\ sc' = [sc EXCEPT !.x = Word(x), !.y = r.out]
            /\ UNCHANGED <<peer, ret, nops>>

\* z = problema_decrypt_char(peer, y), peer fresh
RT_DecryptChar ==
    LET r == problema_decrypt_char(peer, sc.y)
    IN  /\ pc = "encc"
        /\ pc' = "decc"
        /\ peer' = r.ctx
        /\ sc' = [sc EXCEPT !.z = r.out]
        /\ UNCHANGED <<ctx, ret, nops>>

\* after ctx has encrypted s twice: problema_init(ctx, k) again, with the key it
\* had or with another, and problema_init of a context in zeroed storage with
\* the same k (peer now stands for that context)
RT_Reinit ==
    \E k \in {sc.key, ZeroKey} :
        /\ pc = "enc2"
        /\ pc' = "reinit"
        /\ ctx' = problema_init(ctx, k)
        /\ peer' = problema_init(BlankContext, k)
        /\ sc' = [sc EXCEPT !.key2 = k]
        /\ UNCHANGED <<ret, nops>>

\* c3 = problema_encrypt(ctx, s) and cq = problema_encrypt(peer, s)
RT_EncryptReinit ==
    LET r == problema_encrypt(ctx, sc.plain, OutputSize)
        q == problema_encrypt(peer, sc.plain, OutputSize)
    IN  /\ pc = "reinit"
        /\ pc' = "enc3"
        /\ ctx' = r.ctx
        /\ peer' = q.ctx
        /\ sc' = [sc EXCEPT !.c3 = r.out, !.rc3 = r.rc, !.cq = q.out, !.rcq = q.rc]
        /\ UNCHANGED <<ret, nops>>

\* the block whose 16 bytes are all b
ConstantBlock(b) == [i \in 1..PROBLEMA_BLOCK_SIZE |-> b]

\* cb = problema_encrypt_block(ctx, blk), on a sampled block or on the block
\* that SubBytes takes to all zeroes
RT_EncryptBlock ==
    /\ pc = "fresh"
    /\ \E b \in Blocks \cup {ConstantBlock(ctx.aes.inv_sbox[0])} :
           \E r \in {problema_encrypt_block(ctx, BlockOf(b))} :
               /\ pc' = "encb"
               /\ ctx' = r.ctx
               /\ sc' = [sc EXCEPT !.blk = b, !.cb = BlockSeq(r.out)]
               /\ UNCHANGED <<peer, ret, nops>>

\* pb = problema_decrypt_block(peer, cb), peer fresh
RT_DecryptBlock ==
    /\ pc = "encb"
    /\ \E r \in {problema_decrypt_block(peer, BlockOf(sc.cb))} :
           /\ pc' = "decb"
           /\ peer' = r.ctx
           /\ sc' = [sc EXCEPT !.pb = BlockSeq(r.out)]
           /\ UNCHANGED <<ctx, ret, nops>>

\* one single-character call on ctx and one on peer, each in a direction and on
\* a code point of its own; sc.n counts the calls made on each
WalkInputs == {Word(0), Word(PROBLEMA_ROTOR_SIZE - 1), Emoji}
WalkCalls(c) ==
    {problema_encrypt_char(c, x) : x \in WalkInputs}
        \cup {problema_decrypt_char(c, x) : x \in WalkInputs}

RT_Walk ==
    /\ pc \in {"fresh", "walk"}
    /\ sc.n < MaxLen
    /\ pc' = "walk"
    /\ \E a \in WalkCalls(ctx), b \in WalkCalls(peer) :
           /\ ctx' = a.ctx
           /\ peer' = b.ctx
    /\ sc' = [sc EXCEPT !.n = sc.n + 1]
    /\ UNCHANGED <<ret, nops>>

NextRT ==
    \/ RT_Encrypt
    \/ RT_DecryptFresh
    \/ RT_EncryptAgain
    \/ RT_CatchUp
    \/ RT_DecryptCaughtUp
    \/ RT_EncryptChar
    \/ RT_DecryptChar
    \/ RT_Reinit
    \/ RT_EncryptReinit
    \/ RT_EncryptBlock
    \/ RT_DecryptBlock
    \/ RT_EncryptText
    \/ RT_DecryptText
    \/ RT_Walk

SpecRT == InitRT /\ [][NextRT]_vars

(***************************** the UTF-8 codec *****************************)
\* The two conversions on their own.  sc holds the buffers of one experiment:
\* the code points, the bytes, the capacity given to the conversion, its return
\* code and the length it reported (<<>> while unwritten).
CodecPoints == {Word(0), Word(127), Word(128), Word(2047), Word(2048), Word(55296),
                Word(65535), Word(65536), Word(1114111), Word(1114112),
                Word(16777216), [i \in 0..3 |-> 255]}
PointSeqs == UNION {[1..k -> CodecPoints] : k \in 0..CodecLen}
CodecBytes == {65, 128, 191, 192, 237, 247, 248, 255}
ByteStrings == CodeSeqs(CodecBytes, CodecLen + 2)

NoCodec == [unicode |-> <<>>, utf8 |-> <<>>, size |-> 0, rc |-> 0, len |-> <<>>,
            back |-> <<>>, size2 |-> 0, rc2 |-> 0, len2 |-> <<>>]

InitCodec ==
    /\ ctx = BlankContext
    /\ peer = BlankContext
    /\ ret = NoCall
    /\ nops = 0
    /\ \/ \E cs \in PointSeqs : pc = "points" /\ sc = [NoCodec EXCEPT !.unicode = cs]
       \/ \E b \in ByteStrings : pc = "bytes" /\ sc = [NoCodec EXCEPT !.utf8 = b]

\* unicode_to_utf8(unicode, unicode_len, utf8, utf8_size, &utf8_len)
Codec_Encode ==
    \E size \in 0..(4 * Len(sc.unicode)) :
        LET r == unicode_to_utf8(sc.unicode, size)
        IN  /\ pc = "points"
            /\ pc' = "encoded"
            /\ sc' = [sc EXCEPT !.utf8 = r.utf8, !.size = size, !.rc = r.rc,
                                !.len = r.utf8_len]
            /\ UNCHANGED <<ctx, peer, ret, nops>>

\* utf8_to_unicode of the bytes a successful unicode_to_utf8 wrote, into a
\* buffer of one code point per byte or of just the code points there are
Codec_DecodeBack ==
    \E size \in {Len(sc.utf8), Len(sc.unicode)} :
        LET d == utf8_to_unicode(sc.utf8, size)
        IN  /\ pc = "encoded"
            /\ sc.rc = PROBLEMA_SUCCESS
            /\ pc' = "decoded"
            /\ sc' = [sc EXCEPT !.back = d.unicode, !.size2 = size, !.rc2 = d.rc,
                                !.len2 = d.unicode_len]
            /\ UNCHANGED <<ctx, peer, ret, nops>>

\* utf8_to_unicode(utf8, utf8_len, unicode, unicode_size, &unicode_len) on given
\* bytes
Codec_Decode ==
    \E size \in {0, 1, Len(sc.utf8)} :
        LET d == utf8_to_unicode(sc.utf8, size)
        IN  /\ pc = "bytes"
            /\ pc' = "scanned"
            /\ sc' = [sc EXCEPT !.unicode = d.unicode, !.size = size, !.rc = d.rc,
                                !.len = d.unicode_len]
            /\ UNCHANGED <<ctx, peer, ret, nops>>

NextCodec ==
    \/ Codec_Encode
    \/ Codec_DecodeBack
    \/ Codec_Decode

SpecCodec == InitCodec /\ [][NextCodec]_vars

(******************************** claims ***********************************)
\* C1: string round trip.  For every key and every valid UTF-8 string whose code
\* points are all in the rotors' range, problema_encrypt on a fresh context and
\* then problema_decrypt of the ciphertext on a second fresh context of the same
\* key both return PROBLEMA_SUCCESS and the decryption is the plaintext.
C1_StringRoundTrip ==
    pc = "dec1" =>
        /\ sc.rc1 = PROBLEMA_SUCCESS
        /\ sc.rcp = PROBLEMA_SUCCESS
        /\ sc.p = sc.plain

\* C2: single-character round trip.  For every key and every code point x in the
\* rotors' range, with two contexts fresh from the same key,
\* problema_decrypt_char(peer, problema_encrypt_char(ctx, x)) = x.
C2_CharRoundTrip == pc = "decc" => sc.z = sc.x

\* C3: invariant I2.  After problema_init with any key the plugboard mapping is
\* an involution: plug[plug[x]] = x for every x in its range.
C3_PlugboardInvolution ==
    ctx.initialized =>
        \A x \in Bmp : ctx.plugboard.mapping[ctx.plugboard.mapping[x]] = x

\* C3 as amended: after problema_init with any key the plugboard mapping is a
\* permutation of its range; with the all-zero key it is the identity.
C3_PlugboardPermutation ==
    ctx.initialized =>
        /\ \A x \in Bmp : ctx.plugboard.mapping[x] \in Bmp
        /\ \A y \in Bmp : \E x \in Bmp : ctx.plugboard.mapping[x] = y
        /\ sc.key = ZeroKey => \A x \in Bmp : ctx.plugboard.mapping[x] = x

\* a context initialized again, whose plugboard is not an involution
C3_Witness ==
    /\ ctx.initialized
    /\ nops > 0
    /\ ret.op = "init" /\ ~ret.null
    /\ \E x \in Bmp : ctx.plugboard.mapping[ctx.plugboard.mapping[x]] # x

\* C4: invariant I1.  In every state reached after problema_init, for each rotor
\* index the forward and the inverse rotor have the same position, the same
\* num_notches and the same notch positions.
C4_RotorPairsAgree ==
    ctx.initialized =>
        \A r \in 0..(PROBLEMA_NUM_ROTORS - 1) :
            /\ ctx.rotors[r].position = ctx.inverse_rotors[r].position
            /\ ctx.rotors[r].num_notches = ctx.inverse_rotors[r].num_notches
            /\ \A n \in 0..(ctx.rotors[r].num_notches - 1) :
                   ctx.rotors[r].notch_positions[n]
                       = ctx.inverse_rotors[r].notch_positions[n]

\* two calls have run and rotors 0 and 1 have both left their start positions
C4_Witness ==
    /\ ctx.initialized
    /\ nops = MaxOps
    /\ ret.op \in {"encrypt_char", "decrypt_char", "encrypt", "decrypt"}
    /\ ctx.rotors[0].position # sc.key[0] % PROBLEMA_ROTOR_SIZE
    /\ ctx.rotors[1].position # sc.key[1] % PROBLEMA_ROTOR_SIZE

\* C5: invariant I3.  After problema_init each of the 8 rotor mappings is a
\* bijection on its range and inverse_rotors[r].mapping[rotors[r].mapping[i]] = i
\* for every i and r; no operation other than problema_init changes either
\* table.
RotorTablesInverse(c) ==
    \A r \in 0..(PROBLEMA_NUM_ROTORS - 1) :
        /\ \A i \in Bmp :
               /\ c.rotors[r].mapping[i] \in Bmp
               /\ c.inverse_rotors[r].mapping[c.rotors[r].mapping[i]] = i
        /\ \A y \in Bmp : \E i \in Bmp : c.rotors[r].mapping[i] = y

RotorTablesKept ==
    ret'.op # "init" =>
        \A r \in 0..(PROBLEMA_NUM_ROTORS - 1) :
            /\ ctx'.rotors[r].mapping = ctx.rotors[r].mapping
            /\ ctx'.inverse_rotors[r].mapping = ctx.inverse_rotors[r].mapping

C5_RotorTables ==
    /\ [](ctx.initialized => RotorTablesInverse(ctx))
    /\ [][RotorTablesKept]_vars

\* two calls other than problema_init have run on rotors that are not the identity
C5_Witness ==
    /\ ctx.initialized
    /\ nops = MaxOps
    /\ ret.op = "decrypt"
    /\ \E i \in Bmp : ctx.rotors[0].mapping[i] # i
    /\ ctx.rotors[0].position # sc.key[0] % PROBLEMA_ROTOR_SIZE

\* C6: invariant I4.  After problema_init with any key the S-box is a
\* permutation of 0..255 and inv_sbox[sbox[b]] = b for every byte b.
C6_SboxPermutation ==
    ctx.initialized =>
        /\ \A b \in 0..(PROBLEMA_SBOX_SIZE - 1) :
               /\ ctx.aes.sbox[b] \in 0..(PROBLEMA_SBOX_SIZE - 1)
               /\ ctx.aes.inv_sbox[ctx.aes.sbox[b]] = b
        /\ {ctx.aes.sbox[b] : b \in 0..(PROBLEMA_SBOX_SIZE - 1)}
               = 0..(PROBLEMA_SBOX_SIZE - 1)

\* a context initialized a second time, with a key that shuffles the S-box
C6_Witness ==
    /\ ctx.initialized
    /\ nops > 0
    /\ ret.op = "init" /\ ~ret.null
    /\ sc.key = SecretKey
    /\ \E b \in 0..(PROBLEMA_SBOX_SIZE - 2) : ctx.aes.sbox[b] # b + 1

\* C7: rotor advancement rule.  One rotate_rotors step advances rotor 0 by
\* exactly one (mod PROBLEMA_ROTOR_SIZE); rotor r + 1 advances by exactly one iff
\* every rotor 0..r is at one of its own notches at its position after this
\* step's increment, and otherwise stays; so each rotor advances at most once,
\* the rotors that advance are a prefix 0..k, and the notches of rotor 7 play no
\* part.  Checked on every single-character call of an initialized context.
InNotches(rot) ==
    rot.position \in {rot.notch_positions[n] : n \in 0..(rot.num_notches - 1)}

\* rotor r advances in the step that leaves context d
Advances(d, r) == \A q \in 0..(r - 1) : InNotches(d.rotors[q])

RotorRule(c, d) ==
    \A r \in 0..(PROBLEMA_NUM_ROTORS - 1) :
        /\ d.rotors[r].position =
               IF Advances(d, r)
               THEN (c.rotors[r].position + 1) % PROBLEMA_ROTOR_SIZE
               ELSE c.rotors[r].position
        /\ d.rotors[r].notch_positions = c.rotors[r].notch_positions
        /\ d.rotors[r].num_notches = c.rotors[r].num_notches

C7_RotorAdvancement ==
    [][(ctx.initialized /\ ret'.op \in {"encrypt_char", "decrypt_char"} /\ ~ret'.null)
          => RotorRule(ctx, ctx')]_vars

\* the first single-character call has carried through all eight rotors
C7_Witness ==
    /\ ctx.initialized
    /\ nops = 1
    /\ ret.op = "encrypt_char"
    /\ \A r \in 0..(PROBLEMA_NUM_ROTORS - 1) :
           ctx.rotors[r].position = (sc.key[r] + 1) % PROBLEMA_ROTOR_SIZE

\* C8: call entry of problema_encrypt and problema_decrypt.  A call on an
\* initialized context zeroes all 16 feedback bytes before its first code point
\* and neither resets nor restores the rotor positions: after the call the
\* feedback bytes 4..15 are zero (all 16 when no code point was processed), the
\* first code point of the result is the one the single-character operation
\* gives from zero feedback at the positions the previous call left, and every
\* rotor stands where one rotation per processed code point takes it from there.
RECURSIVE Rotated(_, _)
Rotated(c, n) == IF n = 0 THEN c ELSE Rotated(rotate_rotors(c), n - 1)

CallEntryRule(c, d, r) ==
    LET dec == utf8_to_unicode(r.bin, Len(r.bin))
        n == IF dec.rc = PROBLEMA_SUCCESS THEN Len(dec.unicode) ELSE 0
        zc == [c EXCEPT !.feedback = ZeroBlock]
        first == IF r.op = "encrypt"
                 THEN problema_encrypt_char(zc, dec.unicode[1]).out
                 ELSE problema_decrypt_char(zc, dec.unicode[1]).out
    IN  /\ \A i \in 4..(PROBLEMA_BLOCK_SIZE - 1) : d.feedback[i] = 0
        /\ n = 0 => d.feedback = ZeroBlock
        /\ \A q \in 0..(PROBLEMA_NUM_ROTORS - 1) :
               d.rotors[q].position = Rotated(c, n).rotors[q].position
        /\ (n > 0 /\ r.rc = PROBLEMA_SUCCESS) =>
               utf8_to_unicode(r.bout, Len(r.bout)).unicode[1] = first

C8_CallEntry ==
    [][(ctx.initialized /\ ret'.op \in {"encrypt", "decrypt"} /\ ~ret'.null)
          => CallEntryRule(ctx, ctx', ret')]_vars

\* a string call that processed code points right after a single-character call
\* had moved the rotors and left its result in the feedback
C8_Witness ==
    /\ ctx.initialized
    /\ ret.prev = "encrypt_char"
    /\ ret.op = "encrypt"
    /\ ret.rc = PROBLEMA_SUCCESS
    /\ Len(ret.bin) > 0
    /\ ctx.rotors[0].position
           = (sc.key[0] + 1 + CodePointCount(ret.bin)) % PROBLEMA_ROTOR_SIZE

\* C9: non-idempotence of repeated encryption.  Two problema_encrypt calls in a
\* row on the same context with the same non-empty plaintext never give the
\* same ciphertext.
C9_SecondCiphertextDiffers ==
    (pc = "enc2" /\ sc.plain # <<>>) => sc.c2 # sc.c1

\* C9 as amended: the second call succeeds like the first and starts from the
\* rotor positions the first left, so that after it rotor 0 stands two steps per
\* code point past its start position; its ciphertext differs from the first
\* for some keys and is the same for others, the all-zero key among them.
C9_SecondCallContinues ==
    pc = "enc2" =>
        /\ sc.rc1 = PROBLEMA_SUCCESS
        /\ sc.rc2 = PROBLEMA_SUCCESS
        /\ ctx.rotors[0].position
               = (sc.key[0] + (2 * CodePointCount(sc.plain))) % PROBLEMA_ROTOR_SIZE
        /\ sc.key = ZeroKey => sc.c2 = sc.c1

\* a second encryption of a non-empty plaintext whose ciphertext differs
C9_Witness ==
    /\ pc = "enc2"
    /\ sc.plain # <<>>
    /\ sc.c2 # sc.c1

\* C10: caught-up round trip.  After ctx has encrypted s twice (c1, then c2), a
\* second context fresh from the same key that first encrypts a dummy string
\* with as many code points as s and then decrypts c2 returns exactly s.
C10_CaughtUpRoundTrip ==
    pc = "dec2" => (sc.rcp = PROBLEMA_SUCCESS /\ sc.p = sc.plain)


\* C11: passthrough beyond the rotors' range.  For an initialized context and a
\* code point x >= PROBLEMA_ROTOR_SIZE, problema_encrypt_char returns x with its
\* four big-endian bytes XORed with feedback[0..3] as they were at entry (no
\* plugboard, no rotor substitution); the call still advances the rotors one
\* step, stores the four bytes it returns into feedback[0..3] and leaves
\* feedback[4..15] alone.
PassthroughRule(c, d, r) ==
    /\ \A i \in 0..3 : r.cout[i] = Xor8(r.cin[i], c.feedback[i])
    /\ \A i \in 0..3 : d.feedback[i] = r.cout[i]
    /\ \A i \in 4..(PROBLEMA_BLOCK_SIZE - 1) : d.feedback[i] = c.feedback[i]
    /\ RotorRule(c, d)
    /\ d.rotors[0].position = (c.rotors[0].position + 1) % PROBLEMA_ROTOR_SIZE

C11_Passthrough ==
    [][(ctx.initialized /\ ret'.op = "encrypt_char" /\ ~ret'.null
          /\ ~Below(ret'.cin, PROBLEMA_ROTOR_SIZE))
          => PassthroughRule(ctx, ctx', ret')]_vars

\* a code point beyond the rotors' range was encrypted while the feedback was
\* not zero, so that what came back differs from what went in
C11_Witness ==
    /\ ctx.initialized
    /\ ret.op = "encrypt_char"
    /\ ~ret.null
    /\ ~Below(ret.cin, PROBLEMA_ROTOR_SIZE)
    /\ ret.cout # ret.cin
    /\ \A i \in 0..3 : ctx.feedback[i] = ret.cout[i]


\* the code points of a UTF-8 string
CodePoints(utf8) == utf8_to_unicode(utf8, Len(utf8)).unicode

\* C12: closure of the rotors' range under problema_encrypt.  In a successful
\* problema_encrypt call, every input code point below PROBLEMA_ROTOR_SIZE comes
\* out as a ciphertext code point below PROBLEMA_ROTOR_SIZE, whatever code
\* points came before it in the same call.
C12_BmpClosure ==
    (ret.op = "encrypt" /\ ~ret.null /\ ret.rc = PROBLEMA_SUCCESS) =>
        LET plain == CodePoints(ret.bin)
            cipher == CodePoints(ret.bout)
        IN  \A i \in 1..Len(plain) :
                Below(plain[i], PROBLEMA_ROTOR_SIZE) => Below(cipher[i], PROBLEMA_ROTOR_SIZE)

\* C13: problema_encrypt is total on valid input.  On an initialized context,
\* for a valid UTF-8 input whose code points are all <= 0x10FFFF and an output
\* buffer of at least four bytes per code point, problema_encrypt returns
\* PROBLEMA_SUCCESS and its output is UTF-8 that decodes to as many code points
\* as the input.
C13_EncryptTotal ==
    [][(ctx.initialized /\ ret'.op = "encrypt" /\ ~ret'.null
          /\ utf8_to_unicode(ret'.bin, Len(ret'.bin)).rc = PROBLEMA_SUCCESS
          /\ \A i \in 1..Len(CodePoints(ret'.bin)) :
                 AtMost(CodePoints(ret'.bin)[i], 1114111)
          /\ OutputSize >= 4 * Len(CodePoints(ret'.bin)))
          => /\ ret'.rc = PROBLEMA_SUCCESS
             /\ ret'.out_len = <<Len(ret'.bout)>>
             /\ utf8_to_unicode(ret'.bout, Len(ret'.bout)).rc = PROBLEMA_SUCCESS
             /\ Len(CodePoints(ret'.bout)) = Len(CodePoints(ret'.bin))]_vars


\* C14: argument and lifecycle errors of problema_encrypt and problema_decrypt.
\* A call that passes a null ctx, input, output or output_len returns
\* PROBLEMA_ERROR_NULL_POINTER, whether or not the context is initialized; a
\* call with no null pointer on a context that is not initialized returns
\* PROBLEMA_ERROR_NOT_INITIALIZED; in both cases the whole context is left as
\* it was, no output byte is written and *output_len is not written.
Untouched(c, d, r) ==
    /\ d = c
    /\ r.bout = <<>>
    /\ r.out_len = <<>>

C14_ArgumentErrors ==
    [][ret'.op \in {"encrypt", "decrypt"} =>
          /\ ret'.null =>
                 (ret'.rc = PROBLEMA_ERROR_NULL_POINTER /\ Untouched(ctx, ctx', ret'))
          /\ (~ret'.null /\ ~ctx.initialized) =>
                 (ret'.rc = PROBLEMA_ERROR_NOT_INITIALIZED /\ Untouched(ctx, ctx', ret'))]_vars

\* a call with a null pointer on a context that is not initialized either
C14_Witness ==
    /\ ret.op = "encrypt"
    /\ ret.null
    /\ ret.prev = "cleanup"
    /\ ~ctx.initialized
    /\ ret.rc = PROBLEMA_ERROR_NULL_POINTER

\* C15: single-character calls on an unusable context.  With a null ctx, or a
\* context that is not initialized, problema_encrypt_char and
\* problema_decrypt_char return their input and change nothing of the context:
\* no rotor position, no feedback byte, not the mode flag.
C15_CharPassthrough ==
    [][(ret'.op \in {"encrypt_char", "decrypt_char"} /\ (ret'.null \/ ~ctx.initialized))
          => (ret'.cout = ret'.cin /\ ctx' = ctx)]_vars

\* a null-ctx call beside a context that has left its initial state: initialized,
\* in decrypt mode, with feedback set
C15_Witness ==
    /\ ret.op = "encrypt_char"
    /\ ret.null
    /\ ret.prev = "decrypt_char"
    /\ ctx.initialized
    /\ ~ctx.encrypt_mode
    /\ ctx.feedback # ZeroBlock
    /\ ret.cout = ret.cin

\* C16: cleanup lifecycle.  Right after problema_cleanup the 32 key bytes and
\* the 16 feedback bytes are zero and initialized is false.  While the context
\* is not initialized they stay so: every problema_encrypt and problema_decrypt
\* call (with no null pointer) returns PROBLEMA_ERROR_NOT_INITIALIZED, every
\* block operation writes no output and changes nothing, and only a successful
\* problema_init makes the context initialized again.
Zeroized(c) ==
    /\ \A i \in 0..(PROBLEMA_KEY_SIZE - 1) : c.key[i] = 0
    /\ \A i \in 0..(PROBLEMA_BLOCK_SIZE - 1) : c.feedback[i] = 0
    /\ ~c.initialized

CleanedUpRule ==
    ~ctx.initialized =>
        /\ (ret'.op \in {"encrypt", "decrypt"} /\ ~ret'.null)
               => ret'.rc = PROBLEMA_ERROR_NOT_INITIALIZED
        /\ ret'.op \in {"encrypt_block", "decrypt_block"}
               => (ctx' = ctx /\ ret'.bout = <<>>)
        /\ ctx'.initialized => (ret'.op = "init" /\ ret'.rc = PROBLEMA_SUCCESS /\ ~ret'.null)
        /\ ~ctx'.initialized => Zeroized(ctx')

C16_CleanupLifecycle ==
    /\ [](ret.op = "cleanup" => Zeroized(ctx))
    /\ [][CleanedUpRule]_vars

\* a string call refused on a cleaned-up context whose key had not been zero
C16_Witness ==
    /\ ret.prev = "cleanup"
    /\ ret.op = "decrypt"
    /\ ~ret.null
    /\ ret.rc = PROBLEMA_ERROR_NOT_INITIALIZED
    /\ Zeroized(ctx)
    /\ \E i \in 0..(PROBLEMA_KEY_SIZE - 1) : sc.key[i] # 0


\* C17: key determinism of problema_init.  Two contexts given the same key by
\* problema_init, one of them used before (with that key or another, and having
\* encrypted) and one in zeroed storage, agree on every rotor mapping and
\* inverse mapping, every rotor position, every notch set, the plugboard, the
\* S-box and its inverse, the round keys and the key, and both have all-zero
\* feedback; the next problema_encrypt gives the same result on both, and when
\* the key is the one the used context had before, that result is its first
\* ciphertext again.
NotchSet(rot) == {rot.notch_positions[n] : n \in 0..(rot.num_notches - 1)}

SameRotor(a, b) ==
    /\ a.mapping = b.mapping
    /\ a.position = b.position
    /\ a.num_notches = b.num_notches
    /\ NotchSet(a) = NotchSet(b)

SameInit(c, d) ==
    /\ \A r \in 0..(PROBLEMA_NUM_ROTORS - 1) :
           /\ SameRotor(c.rotors[r], d.rotors[r])
           /\ SameRotor(c.inverse_rotors[r], d.inverse_rotors[r])
    /\ c.plugboard = d.plugboard
    /\ c.aes = d.aes
    /\ c.key = d.key
    /\ c.feedback = ZeroBlock /\ d.feedback = ZeroBlock
    /\ c.initialized /\ d.initialized

C17_KeyDeterminism ==
    /\ pc = "reinit" => SameInit(ctx, peer)
    /\ pc = "enc3" =>
           /\ sc.c3 = sc.cq /\ sc.rc3 = sc.rcq
           /\ sc.key2 = sc.key => (sc.c3 = sc.c1 /\ sc.rc3 = sc.rc1)

\* the second encryption had given another ciphertext than the first, and after
\* problema_init with the same key the first ciphertext came back
C17_Witness ==
    /\ pc = "enc3"
    /\ sc.key2 = sc.key
    /\ sc.c2 # sc.c1
    /\ sc.c3 = sc.c1
    /\ sc.rc3 = PROBLEMA_SUCCESS


\* C18: UTF-8 codec round trip.  For every sequence of code points that are all
\* <= 0x10FFFF (surrogates included), unicode_to_utf8 into a buffer that holds
\* the shortest forms succeeds, writes for each code point the shortest of the
\* 1/2/3/4-byte forms and reports their total length; utf8_to_unicode of those
\* bytes succeeds and returns the same code points and their number.
Encodable(w) == w[0] = 0 /\ w[1] <= 16

ShortestLen(w) ==
    IF w[0] # 0 \/ w[1] # 0 THEN 4
    ELSE IF (w[2] * 256) + w[3] <= 127 THEN 1
    ELSE IF (w[2] * 256) + w[3] <= 2047 THEN 2
    ELSE 3

RECURSIVE ShortestTotal(_, _)
ShortestTotal(cs, n) ==
    IF n = 0 THEN 0 ELSE ShortestTotal(cs, n - 1) + ShortestLen(cs[n])

RoundTripCase ==
    /\ pc \in {"encoded", "decoded"}
    /\ \A i \in 1..Len(sc.unicode) : Encodable(sc.unicode[i])
    /\ sc.size >= ShortestTotal(sc.unicode, Len(sc.unicode))

C18_CodecRoundTrip ==
    RoundTripCase =>
        /\ sc.rc = PROBLEMA_SUCCESS
        /\ Len(sc.utf8) = ShortestTotal(sc.unicode, Len(sc.unicode))
        /\ sc.len = <<Len(sc.utf8)>>
        /\ pc = "decoded" =>
               /\ sc.rc2 = PROBLEMA_SUCCESS
               /\ sc.back = sc.unicode
               /\ sc.len2 = <<Len(sc.unicode)>>

\* a surrogate and the last code point, encoded and decoded back into a buffer
\* of exactly two code points
C18_Witness ==
    /\ pc = "decoded"
    /\ sc.unicode = <<Word(55296), Word(1114111)>>
    /\ sc.utf8 = <<237, 160, 128, 244, 143, 191, 191>>
    /\ sc.size2 = 2
    /\ sc.back = sc.unicode

\* C19: UTF-8 decode failures.  utf8_to_unicode returns
\* PROBLEMA_ERROR_INVALID_UTF8 exactly when its scan, which goes from left to
\* right and stops at the end of the input or when the code-point buffer is
\* full, meets a leading byte in 0x80..0xBF or 0xF8..0xFF, a sequence cut short
\* by the end of the input, or a continuation byte outside 0x80..0xBF.  Overlong
\* forms, surrogates and four-byte values above 0x10FFFF are accepted.
SequenceLen(b) ==
    IF b <= 127 THEN 1
    ELSE IF b \in 192..223 THEN 2
    ELSE IF b \in 224..239 THEN 3
    ELSE IF b \in 240..247 THEN 4
    ELSE 0

\* i is the place of the next leading byte, room the code points still to store
RECURSIVE MeetsViolation(_, _, _)
MeetsViolation(utf8, i, room) ==
    IF i > Len(utf8) \/ room = 0 THEN FALSE
    ELSE LET n == SequenceLen(utf8[i])
         IN  IF n = 0 THEN TRUE
             ELSE IF i + n - 1 > Len(utf8) THEN TRUE
             ELSE IF \E k \in 1..(n - 1) : utf8[i + k] \notin 128..191 THEN TRUE
             ELSE MeetsViolation(utf8, i + n, room - 1)

C19_DecodeFailures ==
    pc = "scanned" =>
        /\ sc.rc = PROBLEMA_ERROR_INVALID_UTF8 <=> MeetsViolation(sc.utf8, 1, sc.size)
        /\ sc.rc \in {PROBLEMA_SUCCESS, PROBLEMA_ERROR_BUFFER_TOO_SMALL,
                      PROBLEMA_ERROR_INVALID_UTF8}
        /\ sc.rc = PROBLEMA_ERROR_INVALID_UTF8 => sc.len = <<>>

\* an overlong form of U+0000 was accepted, and the scan then failed on a
\* three-byte sequence cut short by the end of the input
C19_Witness ==
    /\ pc = "scanned"
    /\ sc.utf8 = <<192, 128, 237, 191>>
    /\ sc.size = 4
    /\ sc.rc = PROBLEMA_ERROR_INVALID_UTF8
    /\ sc.unicode = <<Word(0)>>

\* C20: UTF-8 encode failures.  unicode_to_utf8 goes through the code points in
\* order; it returns PROBLEMA_ERROR_INVALID_UTF8 at the first code point above
\* 0x10FFFF and PROBLEMA_ERROR_BUFFER_TOO_SMALL at the first code point whose
\* shortest form does not fit in what is left of the buffer, whichever comes
\* first, with the code points before it written; in both cases *utf8_len
\* is not written.
RECURSIVE EncodeOutcome(_, _, _)
EncodeOutcome(cs, i, used) ==
    IF i > Len(cs) THEN [rc |-> PROBLEMA_SUCCESS, used |-> used]
    ELSE IF ~Encodable(cs[i]) THEN [rc |-> PROBLEMA_ERROR_INVALID_UTF8, used |-> used]
    ELSE IF used + ShortestLen(cs[i]) > sc.size
    THEN [rc |-> PROBLEMA_ERROR_BUFFER_TOO_SMALL, used |-> used]
    ELSE EncodeOutcome(cs, i + 1, used + ShortestLen(cs[i]))

C20_EncodeFailures ==
    pc = "encoded" =>
        LET e == EncodeOutcome(sc.unicode, 1, 0)
        IN  /\ sc.rc = e.rc
            /\ Len(sc.utf8) = e.used
            /\ sc.rc # PROBLEMA_SUCCESS => sc.len = <<>>

\* the buffer ran out at the second code point, after the first was written
C20_Witness ==
    /\ pc = "encoded"
    /\ Len(sc.unicode) = 2
    /\ sc.rc = PROBLEMA_ERROR_BUFFER_TOO_SMALL
    /\ Len(sc.utf8) > 0
    /\ sc.len = <<>>

\* C21: block mode does not round-trip.  With two contexts fresh from the same
\* key, problema_decrypt_block(peer, problema_encrypt_block(ctx, b)) differs
\* from b for blocks b: InvMixColumns after MixColumns takes a row (a, b, c, d)
\* to (b^d, a^c, b^d, a^c), which is the row again only when the row is zero, so
\* that the one block that comes back is the block SubBytes takes to all zeroes.
C21_BlockNoRoundTrip ==
    pc = "decb" =>
        (sc.pb = sc.blk <=> sc.blk = ConstantBlock(ctx.aes.inv_sbox[0]))

\* a block that did not come back, under a key that shuffles the S-box
C21_Witness ==
    /\ pc = "decb"
    /\ sc.key = SecretKey
    /\ sc.blk = [i \in 1..PROBLEMA_BLOCK_SIZE |-> (i - 1) * 17]
    /\ sc.pb # sc.blk
    /\ sc.cb # sc.blk

\* C22: block-mode feedback discipline.  problema_encrypt_block returns
\* AES(input XOR feedback) and then sets the 16 feedback bytes to what it
\* returned; problema_decrypt_block returns InvAES(input) XOR feedback and then
\* sets the feedback to its input; neither changes anything else of the context
\* (no rotor position among it); with a null argument or a context that is not
\* initialized both write no output and leave the whole context as it was.
XorBlock(a, b) == [i \in 0..(PROBLEMA_BLOCK_SIZE - 1) |-> Xor8(a[i], b[i])]

BlockRule(c, d, r) ==
    IF r.null \/ ~c.initialized
    THEN d = c /\ r.bout = <<>>
    ELSE LET input == BlockOf(r.bin)
             expected == IF r.op = "encrypt_block"
                         THEN apply_aes_transformation(c, XorBlock(input, c.feedback))
                         ELSE XorBlock(apply_inverse_aes_transformation(c, input),
                                       c.feedback)
         IN  /\ r.bout = BlockSeq(expected)
             /\ d.feedback = IF r.op = "encrypt_block" THEN expected ELSE input
             /\ d = [c EXCEPT !.feedback = d.feedback]
             /\ \A q \in 0..(PROBLEMA_NUM_ROTORS - 1) :
                    /\ d.rotors[q].position = c.rotors[q].position
                    /\ d.inverse_rotors[q].position = c.inverse_rotors[q].position

C22_BlockFeedback ==
    [][ret'.op \in {"encrypt_block", "decrypt_block"}
          => BlockRule(ctx, ctx', ret')]_vars

\* a block was decrypted right after another was encrypted: the feedback the
\* first call left went into the result, and the feedback is now the input
C22_Witness ==
    /\ ctx.initialized
    /\ ret.prev = "encrypt_block"
    /\ ret.op = "decrypt_block"
    /\ ~ret.null
    /\ ret.bout # <<>>
    /\ ret.bout # BlockSeq(apply_inverse_aes_transformation(ctx, BlockOf(ret.bin)))
    /\ ctx.feedback = BlockOf(ret.bin)
    /\ ret.bout # ret.bin

\* C23: exactly one rotor step per code point.  After a successful
\* problema_encrypt or problema_decrypt of an input with n code points, of the
\* rotors' range or beyond it, rotate_rotors has run exactly n times: every
\* rotor stands where n rotations take it from its position at call entry, and
\* rotor 0's position is (its position at call entry + n) mod
\* PROBLEMA_ROTOR_SIZE.
OneStepPerCodePoint(c, d, r) ==
    LET n == Len(CodePoints(r.bin))
        e == Rotated(c, n)
    IN  /\ d.rotors[0].position = (c.rotors[0].position + n) % PROBLEMA_ROTOR_SIZE
        /\ \A q \in 0..(PROBLEMA_NUM_ROTORS - 1) :
               /\ d.rotors[q].position = e.rotors[q].position
               /\ d.inverse_rotors[q].position = e.inverse_rotors[q].position

C23_OneStepPerCodePoint ==
    [][(ctx.initialized /\ ret'.op \in {"encrypt", "decrypt"} /\ ~ret'.null
          /\ ret'.rc = PROBLEMA_SUCCESS)
          => OneStepPerCodePoint(ctx, ctx', ret')]_vars

\* three code points, one of them beyond the rotors' range, were decrypted
\* after an earlier call, and rotor 0 went past its last position
C23_Witness ==
    /\ ctx.initialized
    /\ ret.op = "decrypt"
    /\ ret.rc = PROBLEMA_SUCCESS
    /\ ret.bin = ThreePoints
    /\ nops = MaxOps
    /\ ctx.rotors[0].position < sc.key[0] % PROBLEMA_ROTOR_SIZE

\* C24: empty input.  problema_encrypt and problema_decrypt on an initialized
\* context with input_len = 0 return PROBLEMA_SUCCESS with *output_len = 0,
\* write no output byte and leave every rotor position unchanged.
EmptyInputRule(c, d, r) ==
    /\ r.rc = PROBLEMA_SUCCESS
    /\ r.out_len = <<0>>
    /\ r.bout = <<>>
    /\ \A q \in 0..(PROBLEMA_NUM_ROTORS - 1) :
           /\ d.rotors[q].position = c.rotors[q].position
           /\ d.inverse_rotors[q].position = c.inverse_rotors[q].position

PreviousCipherBytes(cipher) ==
    [i \in 1..Len(cipher) |-> IF i = 1 THEN Word(0) ELSE cipher[i - 1]]

C25_FeedbackSync ==
    \A stage \in {<<"dec1", sc.rc1, sc.c1>>, <<"dect", sc.rc1, sc.c1>>,
                  <<"dec2", sc.rc2, sc.c2>>} :
        (pc = stage[1] /\ stage[2] = PROBLEMA_SUCCESS) =>
            /\ sc.fd = sc.fe
            /\ sc.fe = PreviousCipherBytes(CodePoints(stage[3]))

\* three code points went through both paths, the feedback was not zero at the
\* second and at the third, and it reached beyond the low two bytes
C25_Witness ==
    /\ pc = "dect"
    /\ sc.rc1 = PROBLEMA_SUCCESS
    /\ Len(sc.fd) = 3
    /\ sc.fd[2] # Word(0)
    /\ sc.fd[3][1] # 0
    /\ sc.fd = sc.fe

\* C26: backward-cascade timing.  On the encrypt path and on the decrypt path
\* alike, the backward cascade applied to a code point reads the rotor positions
\* as they are after that code point's rotor advance.  c is the context at the
\* entry of a single-character call, d the context it leaves (whose positions
\* are the ones after the advance), r the call's input and result: the result is
\* the one obtained with the backward cascade evaluated in d.
BackwardAfterAdvance(c, d, r) ==
    IF r.op = "encrypt_char"
    THEN r.cout = WordOf(XorFeedback(
                      BytesOf(apply_rotors_backward(d,
                                  apply_rotors_forward(c, apply_plugboard(c, r.cin)))),
                      c.feedback))
    ELSE r.cout = apply_plugboard(d,
                      apply_rotors_forward(d,
                          apply_rotors_backward(d,
                              WordOf(XorFeedback(BytesOf(r.cin), c.feedback)))))

\* the encrypt path alone
C26_EncryptBackwardTiming ==
    [][(ctx.initialized /\ ret'.op = "encrypt_char" /\ ~ret'.null)
          => BackwardAfterAdvance(ctx, ctx', ret')]_vars

\* both paths
C26_BackwardTiming ==
    [][(ctx.initialized /\ ret'.op \in {"encrypt_char", "decrypt_char"} /\ ~ret'.null)
          => BackwardAfterAdvance(ctx, ctx', ret')]_vars

\* C27: cascade inverse at fixed positions.  For an initialized context, at the
\* rotor positions it stands at, apply_rotors_backward undoes
\* apply_rotors_forward and apply_rotors_forward undoes apply_rotors_backward
\* on every code point of the rotors' range, both take that range into itself,
\* and both return a code point beyond it unchanged.
BeyondRotors == {Word(PROBLEMA_ROTOR_SIZE), Word(65536), Emoji, Plane16,
                 [i \in 0..3 |-> 255]}

\* c with rotor pair r set to position pos[r]
AtPositions(c, pos) ==
    [c EXCEPT !.rotors = [r \in 0..(PROBLEMA_NUM_ROTORS - 1) |->
                             [c.rotors[r] EXCEPT !.position = pos[r]]],
              !.inverse_rotors = [r \in 0..(PROBLEMA_NUM_ROTORS - 1) |->
                                     [c.inverse_rotors[r] EXCEPT !.position = pos[r]]]]

CascadesInverse(c) ==
    /\ \A x \in Bmp :
           \E f \in {apply_rotors_forward(c, Word(x))},
              b \in {apply_rotors_backward(c, Word(x))} :
               /\ Below(f, PROBLEMA_ROTOR_SIZE)
               /\ Below(b, PROBLEMA_ROTOR_SIZE)
               /\ apply_rotors_backward(c, f) = Word(x)
               /\ apply_rotors_forward(c, b) = Word(x)
    /\ \A w \in BeyondRotors :
           /\ apply_rotors_forward(c, w) = w
           /\ apply_rotors_backward(c, w) = w

\* at the positions of every context on which a further call is made, and for
\* each key at every setting that puts the even rotors at one position and the
\* odd ones at another
C27_CascadeInverse ==
    (ctx.initialized /\ nops < MaxOps) =>
        /\ CascadesInverse(ctx)
        /\ nops = 0 =>
               \A p \in Bmp, q \in Bmp :
                   CascadesInverse(AtPositions(ctx,
                       [r \in 0..(PROBLEMA_NUM_ROTORS - 1) |-> IF r % 2 = 0 THEN p ELSE q]))

\* a call has moved the rotors, rotors 0 and 1 stand at different positions
\* and the forward cascade moves some code point
C27_Witness ==
    /\ ctx.initialized
    /\ nops > 0 /\ nops < MaxOps
    /\ ctx.rotors[0].position # sc.key[0] % PROBLEMA_ROTOR_SIZE
    /\ ctx.rotors[0].position # ctx.rotors[1].position
    /\ \E x \in Bmp : apply_rotors_forward(ctx, Word(x)) # Word(x)
    /\ \E x \in Bmp : apply_rotors_forward(ctx, Word(x))
                            # apply_rotors_backward(ctx, Word(x))

\* C28: the rotor trajectory does not depend on content or direction.  Two
\* contexts that start from the same rotor positions and notches and each go
\* through n single-character calls, in any mix of problema_encrypt_char and
\* problema_decrypt_char and on any code points, have all 8 rotor positions
\* identical; the positions after n characters are those n rotations give from
\* the positions problema_init sets for the key.
Positions(c) ==
    [r \in 0..(PROBLEMA_NUM_ROTORS - 1) |->
        <<c.rotors[r].position, c.inverse_rotors[r].position>>]

C28_RotorTrajectory ==
    pc = "walk" =>
        /\ Positions(ctx) = Positions(peer)
        /\ Positions(ctx) = Positions(Rotated(problema_init(BlankContext, sc.key), sc.n))

\* after MaxLen calls each, the two contexts differ in feedback and in
\* direction, and a carry has moved rotor 1
C28_Witness ==
    /\ pc = "walk"
    /\ sc.n = MaxLen
    /\ ctx.feedback # peer.feedback
    /\ ctx.encrypt_mode # peer.encrypt_mode
    /\ ctx.rotors[1].position # sc.key[1] % PROBLEMA_ROTOR_SIZE
    /\ Positions(ctx) = Positions(peer)

\* C29: per-character encryption is injective.  In any state of an initialized
\* context problema_encrypt_char takes distinct 32-bit inputs to distinct
\* outputs, so that two different code-point sequences of the same length,
\* encrypted character by character from the same state, never give the same
\* ciphertext sequence.
InjectiveInputs ==
    {Word(x) : x \in 0..((2 * PROBLEMA_ROTOR_SIZE) - 1)}
        \cup {Word(65536), Emoji, Plane16, [i \in 0..3 |-> 255],
              [i \in 0..3 |-> IF i = 0 THEN 1 ELSE 0]}
InjectivePairs == [1..2 -> {Word(0), Word(PROBLEMA_ROTOR_SIZE - 1),
                            Word(PROBLEMA_ROTOR_SIZE), Emoji}]

\* checked for every context on which a further call is made
C29_EncryptInjective ==
    (ctx.initialized /\ nops < MaxOps) =>
        /\ Cardinality({problema_encrypt_char(ctx, x).out : x \in InjectiveInputs})
               = Cardinality(InjectiveInputs)
        /\ Cardinality({EncryptLoop(ctx, s, 1).buf : s \in InjectivePairs})
               = Cardinality(InjectivePairs)

\* a context whose feedback reaches beyond the low two bytes, so that code
\* points of the rotors' range are taken out of it, and whose plugboard moves
\* some code point
C29_Witness ==
    /\ ctx.initialized
    /\ nops > 0 /\ nops < MaxOps
    /\ ctx.feedback[1] # 0
    /\ \E x \in Bmp : ctx.plugboard.mapping[x] # x
    /\ \E x \in Bmp : ~Below(problema_encrypt_char(ctx, Word(x)).out, PROBLEMA_ROTOR_SIZE)
    /\ ctx.rotors[0].position # sc.key[0] % PROBLEMA_ROTOR_SIZE

\* C30: encode-stage failures are not rolled back.  problema_encrypt and
\* problema_decrypt transform every decoded code point before they encode any
\* output, so when the final unicode_to_utf8 fails (PROBLEMA_ERROR_BUFFER_TOO_SMALL,
\* or PROBLEMA_ERROR_INVALID_UTF8 for a transformed code point above 0x10FFFF)
\* the call returns that error with the rotors advanced by the full number of
\* code points of the input and with feedback[0..3] holding the bytes of the
\* last character: the last transformed code point on the encrypt path, the
\* last input code point on the decrypt path.
EncodeStageFailure(c, r) ==
    /\ c.initialized
    /\ r.op \in {"encrypt", "decrypt"}
    /\ ~r.null
    /\ utf8_to_unicode(r.bin, Len(r.bin)).rc = PROBLEMA_SUCCESS
    /\ r.rc # PROBLEMA_SUCCESS

NotRolledBack(c, d, r) ==
    LET cps == CodePoints(r.bin)
        n == Len(cps)
        last == IF r.op = "encrypt"
                THEN EncryptLoop(ClearFeedback(c), cps, 1).buf[n]
                ELSE cps[n]
    IN  /\ r.rc \in {PROBLEMA_ERROR_BUFFER_TOO_SMALL, PROBLEMA_ERROR_INVALID_UTF8}
        /\ r.out_len = <<>>
        /\ n > 0
        /\ Positions(d) = Positions(Rotated(c, n))
        /\ FeedbackWord(d) = last
        /\ \A i \in 4..(PROBLEMA_BLOCK_SIZE - 1) : d.feedback[i] = 0
        /\ r.rc = PROBLEMA_ERROR_INVALID_UTF8 =>
               \E i \in 1..n :
                   ~AtMost((IF r.op = "encrypt"
                            THEN EncryptLoop(ClearFeedback(c), cps, 1)
                            ELSE DecryptLoop(ClearFeedback(c), cps, 1)).buf[i], 1114111)

C30_EncodeFailureKept ==
    [][EncodeStageFailure(ctx, ret') => NotRolledBack(ctx, ctx', ret')]_vars

\* the output buffer ran out at the second of two code points: one byte was
\* written, and both code points had gone through the rotors
C30_Witness ==
    /\ ctx.initialized
    /\ ret.op = "encrypt"
    /\ ~ret.null
    /\ ret.rc = PROBLEMA_ERROR_BUFFER_TOO_SMALL
    /\ ret.size = ShortOutput
    /\ Len(ret.bout) = 1
    /\ nops = 1
    /\ ctx.rotors[0].position = (sc.key[0] + 2) % PROBLEMA_ROTOR_SIZE
    /\ ctx.feedback[1] # 0

\* C31: the character pipeline touches only feedback[0..3].
\* problema_encrypt_char and problema_decrypt_char leave feedback[4..15] as it
\* is, and neither their result nor anything else of the context they leave
\* depends on those twelve bytes; so throughout a problema_encrypt or
\* problema_decrypt call, which zeroes the feedback at entry, feedback[4..15]
\* is zero after every code point.
FeedbackTail(c) == [i \in 4..(PROBLEMA_BLOCK_SIZE - 1) |-> c.feedback[i]]
ZeroTail == [i \in 4..(PROBLEMA_BLOCK_SIZE - 1) |-> 0]

\* c with feedback[4..15] replaced by t
WithTail(c, t) ==
    [c EXCEPT !.feedback = [i \in 0..(PROBLEMA_BLOCK_SIZE - 1) |->
                               IF i < 4 THEN c.feedback[i] ELSE t[i]]]

OtherTails == {ZeroTail, [i \in 4..(PROBLEMA_BLOCK_SIZE - 1) |-> 255 - i]}

CharCall(op, c, x) ==
    IF op = "encrypt_char" THEN problema_encrypt_char(c, x) ELSE problema_decrypt_char(c, x)

TailUntouched(c, d, r) ==
    /\ FeedbackTail(d) = FeedbackTail(c)
    /\ \A t \in OtherTails :
           \E q \in {CharCall(r.op, WithTail(c, t), r.cin)} :
               /\ q.out = r.cout
               /\ q.ctx = WithTail(d, t)

\* the tail is zero after each of the single-character calls of the loop of a
\* string call, from code point i on
RECURSIVE TailZeroThroughout(_, _, _, _)
TailZeroThroughout(op, c, buf, i) ==
    IF i > Len(buf) THEN TRUE
    ELSE \E q \in {CharCall(op, c, buf[i])} :
             /\ FeedbackTail(q.ctx) = ZeroTail
             /\ TailZeroThroughout(op, q.ctx, buf, i + 1)

TailRule(c, d, r) ==
    IF r.op \in {"encrypt_char", "decrypt_char"}
    THEN TailUntouched(c, d, r)
    ELSE /\ FeedbackTail(d) = ZeroTail
         /\ TailZeroThroughout(IF r.op = "encrypt" THEN "encrypt_char" ELSE "decrypt_char",
                                ClearFeedback(c), CodePoints(r.bin), 1)

C31_FeedbackTail ==
    [][(ctx.initialized /\ ~ret'.null
          /\ ret'.op \in {"encrypt_char", "decrypt_char", "encrypt", "decrypt"})
          => TailRule(ctx, ctx', ret')]_vars

\* a single-character call right after a block call, which had filled all 16
\* feedback bytes: the twelve upper bytes are still the block's
C31_Witness ==
    /\ ctx.initialized
    /\ ret.prev = "encrypt_block"
    /\ ret.op = "encrypt_char"
    /\ ~ret.null
    /\ FeedbackTail(ctx) # ZeroTail
    /\ FeedbackWord(ctx) = ret.cout
    /\ ret.cout # ret.cin


\* C32: cleanup frame.  problema_cleanup changes only key, feedback and the
\* initialized flag: the rotor and inverse-rotor tables, the rotor positions
\* and notches, the plugboard, both S-boxes and the round-key table are the
\* same after the call as before it.  So right after a cleanup round_keys[0]
\* and round_keys[4] still hold bytes 0..15 and 16..31 of the key the context
\* was last initialized with, while the key field itself is zero.
CleanupKeeps(c, d) ==
    /\ d.rotors = c.rotors
    /\ d.inverse_rotors = c.inverse_rotors
    /\ d.plugboard = c.plugboard
    /\ d.aes = c.aes
    /\ d.initial_feedback = c.initial_feedback
    /\ d.encrypt_mode = c.encrypt_mode

RoundKeysHoldKey(c, key) ==
    \A i \in 0..(PROBLEMA_BLOCK_SIZE - 1) :
        /\ c.aes.round_keys[0][i] = key[i]
        /\ c.aes.round_keys[4][i] = key[PROBLEMA_BLOCK_SIZE + i]

C32_CleanupFrame ==
    /\ [][ret'.op = "cleanup" => CleanupKeeps(ctx, ctx')]_vars
    /\ [](ret.op = "cleanup" => (Zeroized(ctx) /\ RoundKeysHoldKey(ctx, sc.key)))

\* a cleanup after a character call moved the rotors of a context whose key
\* has no zero byte: the key field is zero, round_keys[4] is not
C32_Witness ==
    /\ ret.op = "cleanup"
    /\ ret.prev \in {"encrypt_char", "decrypt_char"}
    /\ sc.key = FullKey
    /\ Zeroized(ctx)
    /\ ctx.rotors # problema_init(BlankContext, sc.key).rotors
    /\ \A i \in 0..(PROBLEMA_BLOCK_SIZE - 1) : ctx.aes.round_keys[4][i] # 0

\* C33: the forward block transform is not injective.  For every key and
\* every block x, the block that differs from x in one row, where SubBytes
\* takes its four bytes to those of x each XORed with the same non-zero t, is
\* another block with the same apply_aes_transformation output.  So for every
\* problema_encrypt_block call there is a different plaintext block that, on
\* the same context (the same feedback), gives the same ciphertext and leaves
\* the same context.
Rows == 0..3
Masks == 1..(PROBLEMA_SBOX_SIZE - 1)
EdgeMasks == {1, PROBLEMA_SBOX_SIZE - 1}

TwinBlock(c, x, row, t) ==
    [k \in 0..(PROBLEMA_BLOCK_SIZE - 1) |->
        IF k \div 4 = row THEN c.aes.inv_sbox[Xor8(c.aes.sbox[x[k]], t)] ELSE x[k]]

TwinInput(c, input, row, t) ==
    XorBlock(TwinBlock(c, XorBlock(input, c.feedback), row, t), c.feedback)

TransformCollides(c) ==
    \A b \in Blocks : \A row \in Rows : \A t \in Masks :
        \E x \in {BlockOf(b)} :
            \E y \in {TwinBlock(c, x, row, t)} :
                /\ y # x
                /\ apply_aes_transformation(c, y) = apply_aes_transformation(c, x)

SameCiphertext(c, d, r) ==
    \A row \in Rows : \A t \in EdgeMasks :
        \E p \in {TwinInput(c, BlockOf(r.bin), row, t)} :
            /\ p # BlockOf(r.bin)
            /\ \E q \in {problema_encrypt_block(c, p)} :
                   /\ q.written
                   /\ BlockSeq(q.out) = r.bout
                   /\ q.ctx = d

C33_BlockNotInjective ==
    /\ []((ctx.initialized /\ nops = 0) => TransformCollides(ctx))
    /\ [][(ctx.initialized /\ ret'.op = "encrypt_block" /\ ~ret'.null)
              => SameCiphertext(ctx, ctx', ret')]_vars

\* the second of two problema_encrypt_block calls on a fresh context: the
\* feedback it started from was the first ciphertext, not zero, and a
\* different plaintext block gives the ciphertext it returned
C33_Witness ==
    /\ ctx.initialized
    /\ nops = 2
    /\ ret.prev = "encrypt_block"
    /\ ret.op = "encrypt_block"
    /\ ~ret.null
    /\ \E b \in Blocks :
           \E c1 \in {problema_encrypt_block(problema_init(BlankContext, sc.key),
                                              BlockOf(b)).ctx} :
               /\ c1.feedback # ZeroBlock
               /\ problema_encrypt_block(c1, BlockOf(ret.bin)).ctx = ctx
               /\ \E p \in {TwinInput(c1, BlockOf(ret.bin), 0, 1)} :
                      /\ p # BlockOf(ret.bin)
                      /\ BlockSeq(problema_encrypt_block(c1, p).out) = ret.bout

=============================================================================
